---- MODULE Spec2Model ----
(***************************************************************************)
(* A model of the indicator/signal pipeline of the Dashboard repository:   *)
(* the breakout scanner (src/src/scanner/breakout_scanner.py), the pattern *)
(* helpers it calls (src/src/analysis/patterns.py) and the technical       *)
(* indicators it calls (src/src/analysis/technical.py).                    *)
(*                                                                         *)
(* Floating point numbers are modelled as exact projective rationals       *)
(* [n, d] with d >= 0: d > 0 is the finite value n/d, [0,0] is NaN and     *)
(* [1,0] / [-1,0] are +inf / -inf.  Rounding is not modelled.              *)
(* Sequences are 1-indexed: pandas position p (0-based) is index p+1, and  *)
(* pandas position -k is index Len - k + 1.                                *)
(***************************************************************************)
EXTENDS Integers, Sequences, FiniteSets, TLC

VARIABLES
    op,        \* the entry point of the scanner that was called
    tickers,   \* the ticker list passed to it
    idx,       \* number of tickers the loop of scan_multiple_tickers has handled
    results,   \* the list `results` of scan_multiple_tickers
    fetched,   \* history: what happened to each handled ticker
    df,        \* the DataFrame returned by scan_multiple_tickers
    out,       \* what the entry point returned (or that it raised)
    pc,        \* position in the call
    fn,        \* a single call of one function: the function called
    arg,       \* a single call of one function: its argument
    ret        \* a single call of one function: what it returned

vars == <<op, tickers, idx, results, fetched, df, out, pc, fn, arg, ret>>

scanVars == <<op, tickers, idx, results, fetched, df, out, pc>>
pureVars == <<fn, arg, ret>>

-----------------------------------------------------------------------------
(* Floats *)

Sign(x) == IF x > 0 THEN 1 ELSE IF x < 0 THEN -1 ELSE 0

Num(i) == [n |-> i, d |-> 1]
NaN == [n |-> 0, d |-> 0]

\* keep d >= 0; an infinity is [1,0] or [-1,0]
Norm(x) ==
    IF x.d < 0 THEN [n |-> -x.n, d |-> -x.d]
    ELSE IF x.d = 0 THEN [n |-> Sign(x.n), d |-> 0]
    ELSE x

isna(x) == x.d = 0 /\ x.n = 0

Lt(a, b) ==
    /\ ~isna(a)
    /\ ~isna(b)
    /\ IF a.d = 0 /\ b.d = 0 THEN a.n < b.n ELSE a.n * b.d < b.n * a.d

Le(a, b) ==
    /\ ~isna(a)
    /\ ~isna(b)
    /\ IF a.d = 0 /\ b.d = 0 THEN a.n <= b.n ELSE a.n * b.d <= b.n * a.d

Gt(a, b) == Lt(b, a)
Ge(a, b) == Le(b, a)
Eq(a, b) == Le(a, b) /\ Le(b, a)

Neg(a) == [n |-> -a.n, d |-> a.d]

Add(a, b) ==
    IF a.d = 0 /\ b.d = 0
    THEN IF a.n = b.n THEN a ELSE NaN
    ELSE Norm([n |-> a.n * b.d + b.n * a.d, d |-> a.d * b.d])

Sub(a, b) == Add(a, Neg(b))
Mul(a, b) == Norm([n |-> a.n * b.n, d |-> a.d * b.d])
Div(a, b) == Norm([n |-> a.n * b.d, d |-> a.d * b.n])
Abs(a) == [n |-> IF a.n < 0 THEN -a.n ELSE a.n, d |-> a.d]

-----------------------------------------------------------------------------
(* pandas Series helpers *)

\* s.iloc[-k]
ilocNeg(s, k) == s[Len(s) - k + 1]

\* s.tail(k)
tail(s, k) ==
    IF Len(s) <= k THEN s ELSE [i \in 1..k |-> s[Len(s) - k + i]]

\* s.shift(1)
shift1(s) == [i \in 1..Len(s) |-> IF i = 1 THEN NaN ELSE s[i - 1]]

\* s.diff()
diff(s) == [i \in 1..Len(s) |-> IF i = 1 THEN NaN ELSE Sub(s[i], s[i - 1])]

\* sum, maximum and minimum of s[lo..hi], by halving the range
RECURSIVE SumRange(_, _, _)
SumRange(s, lo, hi) ==
    IF lo > hi THEN Num(0)
    ELSE IF lo = hi THEN s[lo]
    ELSE LET mid == (lo + hi) \div 2
         IN  Add(SumRange(s, lo, mid), SumRange(s, mid + 1, hi))

RECURSIVE MaxRange(_, _, _)
MaxRange(s, lo, hi) ==
    IF lo = hi THEN s[lo]
    ELSE LET mid == (lo + hi) \div 2
             a == MaxRange(s, lo, mid)
             b == MaxRange(s, mid + 1, hi)
         IN  IF Gt(b, a) THEN b ELSE a

RECURSIVE MinRange(_, _, _)
MinRange(s, lo, hi) ==
    IF lo = hi THEN s[lo]
    ELSE LET mid == (lo + hi) \div 2
             a == MinRange(s, lo, mid)
             b == MinRange(s, mid + 1, hi)
         IN  IF Lt(b, a) THEN b ELSE a

\* s.rolling(window=w): pandas raises ValueError("window must be an integer 0
\* or greater") for a negative window, and accepts 0
rolling_validate(w) == w >= 0

rolling_mean_partial(s, w) ==
    [i \in 1..Len(s) |->
        IF i < w THEN Div(SumRange(s, 1, i), Num(i))
        ELSE Div(SumRange(s, i - w + 1, i), Num(w))]

\* s.rolling(window=w).mean(): undefined until w observations are in the
\* window; with w = 0 every window is empty and every mean undefined
rolling_mean(s, w) ==
    [i \in 1..Len(s) |->
        IF i < w THEN NaN ELSE Div(SumRange(s, i - w + 1, i), Num(w))]

rolling_max(s, w) ==
    [i \in 1..Len(s) |-> IF i < w THEN NaN ELSE MaxRange(s, i - w + 1, i)]

rolling_min(s, w) ==
    [i \in 1..Len(s) |-> IF i < w THEN NaN ELSE MinRange(s, i - w + 1, i)]

\* a DataFrame of price bars: integer columns Close, High, Low, Volume and
\* the set of column names it really has
len(frame) == Len(frame.Close)

\* df[c] as a float Series
Col(frame, c) == [i \in 1..Len(frame[c]) |-> Num(frame[c][i])]

-----------------------------------------------------------------------------
(* src/src/analysis/technical.py *)

calculate_sma(data, period) == rolling_mean(data, period)

calculate_rsi_unsigned(data, period) ==
    LET delta == diff(data)
        gain == [i \in 1..Len(data) |->
                    IF Gt(delta[i], Num(0)) THEN delta[i] ELSE Num(0)]
        loss == [i \in 1..Len(data) |->
                    IF Lt(delta[i], Num(0)) THEN delta[i] ELSE Num(0)]
        avg_gain == rolling_mean(gain, period)
        avg_loss == rolling_mean(loss, period)
    IN  [i \in 1..Len(data) |->
            LET rs == Div(avg_gain[i], avg_loss[i])
            IN  Sub(Num(100), Div(Num(100), Add(Num(1), rs)))]

calculate_rsi_no_inf(data, period) ==
    LET delta == diff(data)
        gain == [i \in 1..Len(data) |->
                    IF Gt(delta[i], Num(0)) THEN delta[i] ELSE Num(0)]
        loss == [i \in 1..Len(data) |->
                    IF Lt(delta[i], Num(0)) THEN Neg(delta[i]) ELSE Num(0)]
        avg_gain == rolling_mean(gain, period)
        avg_loss == rolling_mean(loss, period)
    IN  [i \in 1..Len(data) |->
            LET rs == IF avg_loss[i].n = 0 THEN NaN
                      ELSE Div(avg_gain[i], avg_loss[i])
            IN  Sub(Num(100), Div(Num(100), Add(Num(1), rs)))]

\* avg_gain / 0 is inf for avg_gain > 0 and NaN for 0 / 0; 100 / (1 + inf)
\* is 0
calculate_rsi(data, period) ==
    LET delta == diff(data)
        \* delta.where(delta > 0, 0).fillna(0): a NaN delta fails the test
        gain == [i \in 1..Len(data) |->
                    IF Gt(delta[i], Num(0)) THEN delta[i] ELSE Num(0)]
        loss == [i \in 1..Len(data) |->
                    IF Lt(delta[i], Num(0)) THEN Neg(delta[i]) ELSE Num(0)]
        avg_gain == rolling_mean(gain, period)
        avg_loss == rolling_mean(loss, period)
    IN  [i \in 1..Len(data) |->
            LET rs == Div(avg_gain[i], avg_loss[i])
            IN  Sub(Num(100), Div(Num(100), Add(Num(1), rs)))]

identify_crossover_bug(series1, series2) ==
    LET prev1 == shift1(series1)
        prev2 == shift1(series2)
    IN  [i \in 1..Len(series1) |->
            IF Gt(series1[i], series2[i]) /\ Lt(prev1[i], prev2[i]) THEN 1
            ELSE IF Lt(series1[i], series2[i]) /\ Gt(prev1[i], prev2[i]) THEN -1
            ELSE 0]

identify_crossover(series1, series2) ==
    LET prev1 == shift1(series1)
        prev2 == shift1(series2)
        bullish == [i \in 1..Len(series1) |->
                       Gt(series1[i], series2[i]) /\ Le(prev1[i], prev2[i])]
        bearish == [i \in 1..Len(series1) |->
                       Lt(series1[i], series2[i]) /\ Ge(prev1[i], prev2[i])]
    IN  \* crossover = 0; crossover[bullish] = 1; crossover[bearish] = -1
        [i \in 1..Len(series1) |->
            IF bearish[i] THEN -1 ELSE IF bullish[i] THEN 1 ELSE 0]

identify_golden_death_cross(frame) ==
    LET sma_50 == calculate_sma(Col(frame, "Close"), 50)
        sma_200 == calculate_sma(Col(frame, "Close"), 200)
        crossover == identify_crossover(sma_50, sma_200)
    IN  [Golden_Cross |-> [i \in 1..len(frame) |-> crossover[i] = 1],
         Death_Cross |-> [i \in 1..len(frame) |-> crossover[i] = -1]]

-----------------------------------------------------------------------------
(* src/src/analysis/patterns.py *)

\* threshold is the fraction (default 0.05); the code compares with threshold * 100
detect_consolidation(frame, window, threshold) ==
    LET rolling_high == rolling_max(Col(frame, "High"), window)
        rolling_low == rolling_min(Col(frame, "Low"), window)
    IN  [i \in 1..len(frame) |->
            LET avg_price == Div(Add(rolling_high[i], rolling_low[i]), Num(2))
                price_range_pct ==
                    Mul(Div(Sub(rolling_high[i], rolling_low[i]), avg_price),
                        Num(100))
            IN  Lt(price_range_pct, Mul(threshold, Num(100)))]

calculate_52_week_high_low(frame) ==
    LET lookback == IF len(frame) < 252 THEN len(frame) ELSE 252
        recent_high == tail(Col(frame, "High"), lookback)
        recent_low == tail(Col(frame, "Low"), lookback)
        high_52w == MaxRange(recent_high, 1, Len(recent_high))
        low_52w == MinRange(recent_low, 1, Len(recent_low))
        current_price == ilocNeg(Col(frame, "Close"), 1)
        pct_from_high == Mul(Div(Sub(current_price, high_52w), high_52w), Num(100))
        pct_from_low == Mul(Div(Sub(current_price, low_52w), low_52w), Num(100))
    IN  [high_52w |-> high_52w,
         low_52w |-> low_52w,
         current_price |-> current_price,
         pct_from_high |-> pct_from_high,
         pct_from_low |-> pct_from_low,
         near_52w_high |-> Gt(pct_from_high, Num(-5))]

-----------------------------------------------------------------------------
(* Python values *)

None == [kind |-> "None"]
Raise == [kind |-> "raise"]
Return(v) == [kind |-> "return", value |-> v]

\* a call of calculate_sma: the ValueError of rolling() propagates
calculate_sma_call(data, period) ==
    IF ~rolling_validate(period) THEN Raise
    ELSE Return(calculate_sma(data, period))

\* a call of calculate_rsi: gain.rolling(window=period) raises likewise
calculate_rsi_call(data, period) ==
    IF ~rolling_validate(period) THEN Raise
    ELSE Return(calculate_rsi(data, period))

AllCols == {"Close", "High", "Low", "Volume"}

-----------------------------------------------------------------------------
(* src/src/scanner/breakout_scanner.py: the per-ticker signals *)

calculate_relative_volume_incl(frame, period) ==
    IF len(frame) < period + 1 THEN None
    ELSE LET n == len(frame)
             \* df['Volume'].tail(period).mean()
             avg_volume ==
                 Div(SumRange(Col(frame, "Volume"), n - period + 1, n), Num(period))
             current_volume == ilocNeg(Col(frame, "Volume"), 1)
         IN  IF Eq(avg_volume, Num(0)) THEN None
             ELSE Div(current_volume, avg_volume)

calculate_relative_volume(frame, period) ==
    IF len(frame) < period + 1 THEN None
    ELSE LET n == len(frame)
             \* df['Volume'].iloc[:-1].tail(period).mean()
             avg_volume ==
                 Div(SumRange(Col(frame, "Volume"), n - period, n - 1), Num(period))
             current_volume == ilocNeg(Col(frame, "Volume"), 1)
         IN  IF Eq(avg_volume, Num(0)) THEN None
             ELSE Div(current_volume, avg_volume)

check_volume_surge_strict(frame, threshold) ==
    LET rel_vol == calculate_relative_volume(frame, 20)
    IN  IF rel_vol = None THEN FALSE ELSE Gt(rel_vol, threshold)

\* calculate_relative_volume(df) is called with its default period, 20
check_volume_surge(frame, threshold) ==
    LET rel_vol == calculate_relative_volume(frame, 20)
    IN  IF rel_vol = None THEN FALSE ELSE Ge(rel_vol, threshold)

check_rsi_signal_inclusive(frame, oversold, overbought) ==
    LET rsi == calculate_rsi(Col(frame, "Close"), 14)
    IN  IF Len(rsi) = 0 \/ isna(ilocNeg(rsi, 1)) THEN "neutral"
        ELSE LET current_rsi == ilocNeg(rsi, 1)
             IN  IF Le(current_rsi, oversold) THEN "oversold"
                 ELSE IF Ge(current_rsi, overbought) THEN "overbought"
                 ELSE "neutral"

check_rsi_signal(frame, oversold, overbought) ==
    LET rsi == calculate_rsi(Col(frame, "Close"), 14)
    IN  IF Len(rsi) = 0 \/ isna(ilocNeg(rsi, 1)) THEN "neutral"
        ELSE LET current_rsi == ilocNeg(rsi, 1)
             IN  IF Lt(current_rsi, oversold) THEN "oversold"
                 ELSE IF Gt(current_rsi, overbought) THEN "overbought"
                 ELSE "neutral"

check_ma_crossover_death_first(frame) ==
    IF len(frame) < 200 THEN "none"
    ELSE LET df_with_cross == identify_golden_death_cross(frame)
             n == len(frame)
             recent == {i \in 1..n : i > n - 5}
         IN  IF \E i \in recent : df_with_cross.Death_Cross[i] THEN "death_cross"
             ELSE IF \E i \in recent : df_with_cross.Golden_Cross[i] THEN "golden_cross"
             ELSE "none"

check_ma_crossover(frame) ==
    IF len(frame) < 200 THEN "none"
    ELSE LET df_with_cross == identify_golden_death_cross(frame)
             n == len(frame)
             \* df_with_cross.tail(5)
             recent == {i \in 1..n : i > n - 5}
         IN  IF \E i \in recent : df_with_cross.Golden_Cross[i] THEN "golden_cross"
             ELSE IF \E i \in recent : df_with_cross.Death_Cross[i] THEN "death_cross"
             ELSE "none"

check_near_52w_high_stats(frame, threshold) ==
    LET stats == calculate_52_week_high_low(frame)
    IN  Gt(stats.pct_from_high, Neg(threshold))

\* abs(stats['pct_from_high']) <= threshold
check_near_52w_high(frame, threshold) ==
    LET stats == calculate_52_week_high_low(frame)
    IN  Le(Abs(stats.pct_from_high), threshold)

check_consolidation_breakout_was_only(frame) ==
    LET consolidation == detect_consolidation(frame, 20, [n |-> 5, d |-> 100])
        n == Len(consolidation)
    IN  IF n < 2 THEN [in_consolidation |-> FALSE, breaking_out |-> FALSE]
        ELSE LET currently_consolidating == consolidation[n]
                 was_consolidating ==
                     IF n > 10 THEN \E i \in (n - 9)..(n - 1) : consolidation[i]
                     ELSE FALSE
                 breaking_out == was_consolidating
                 Close == Col(frame, "Close")
                 recent_close_change ==
                     Mul(Div(Sub(ilocNeg(Close, 1), ilocNeg(Close, 5)),
                             ilocNeg(Close, 5)), Num(100))
             IN  [in_consolidation |-> currently_consolidating,
                  breaking_out |->
                      IF breaking_out /\ len(frame) > 5
                      THEN breaking_out /\ Gt(recent_close_change, Num(2))
                      ELSE breaking_out]

check_consolidation_breakout(frame) ==
    LET consolidation == detect_consolidation(frame, 20, [n |-> 5, d |-> 100])
        n == Len(consolidation)
    IN  IF n < 2 THEN [in_consolidation |-> FALSE, breaking_out |-> FALSE]
        ELSE LET currently_consolidating == consolidation[n]
                 \* consolidation.iloc[-10:-1].any() if len(consolidation) > 10
                 was_consolidating ==
                     IF n > 10 THEN \E i \in (n - 9)..(n - 1) : consolidation[i]
                     ELSE FALSE
                 breaking_out == was_consolidating /\ ~currently_consolidating
                 Close == Col(frame, "Close")
                 recent_close_change ==
                     Mul(Div(Sub(ilocNeg(Close, 1), ilocNeg(Close, 5)),
                             ilocNeg(Close, 5)), Num(100))
             IN  [in_consolidation |-> currently_consolidating,
                  breaking_out |->
                      IF breaking_out /\ len(frame) > 5
                      THEN breaking_out /\ Gt(recent_close_change, Num(2))
                      ELSE breaking_out]

\* the dict `signals` of scan_ticker, with rsi_value added
scan_signals(ticker, frame) ==
    LET Close == Col(frame, "Close")
        rsi == calculate_rsi(Close, 14)
    IN  [kind |-> "dict",
         ticker |-> ticker,
         current_price |-> ilocNeg(Close, 1),
         relative_volume |-> calculate_relative_volume(frame, 20),
         volume_surge |-> check_volume_surge(frame, Num(2)),
         rsi_signal |-> check_rsi_signal(frame, Num(30), Num(70)),
         ma_crossover |-> check_ma_crossover(frame),
         near_52w_high |-> check_near_52w_high(frame, Num(5)),
         consolidation |-> check_consolidation_breakout(frame),
         price_change_5d |->
             IF len(frame) > 5
             THEN Mul(Div(Sub(ilocNeg(Close, 1), ilocNeg(Close, 6)),
                          ilocNeg(Close, 6)), Num(100))
             ELSE None,
         price_change_20d |->
             IF len(frame) > 20
             THEN Mul(Div(Sub(ilocNeg(Close, 1), ilocNeg(Close, 21)),
                          ilocNeg(Close, 21)), Num(100))
             ELSE None,
         rsi_value |-> ilocNeg(rsi, 1)]

scan_ticker_try_le_50(ticker, fetch) ==
    IF fetch.kind = "raise" THEN Raise
    ELSE IF len(fetch.frame) <= 50 THEN None
    ELSE IF AllCols \ fetch.frame.cols # {} THEN Raise
    ELSE scan_signals(ticker, fetch.frame)

\* the body of the try block of scan_ticker; fetch is what fetch_historical_data did
scan_ticker_try(ticker, fetch) ==
    IF fetch.kind = "raise" THEN Raise
    ELSE IF len(fetch.frame) < 50 THEN None
    \* df['Close'], df['Volume'], df['High'], df['Low']: KeyError
    ELSE IF AllCols \ fetch.frame.cols # {} THEN Raise
    ELSE scan_signals(ticker, fetch.frame)

scan_ticker_no_except(ticker, fetch) == scan_ticker_try(ticker, fetch)

\* try: ... except Exception: return None
scan_ticker(ticker, fetch) ==
    LET r == scan_ticker_try(ticker, fetch)
    IN  IF r = Raise THEN None ELSE r

-----------------------------------------------------------------------------
(* pandas DataFrame of scan records: a sequence of rows *)

\* pd.DataFrame(results); a missing relative_volume (None) is a null of the
\* column, which every comparison treats as NaN does
DataFrame(rows) ==
    [i \in 1..Len(rows) |->
        [rows[i] EXCEPT !.relative_volume =
            IF rows[i].relative_volume = None THEN NaN ELSE @]]

\* pd.DataFrame() has no columns; a frame built from records has them all
df_empty_never(d) == FALSE

df_empty(d) == Len(d) = 0

HasColumns(d) == Len(d) > 0

\* x.astype(int) of a boolean
astype_int(b) == IF b THEN 1 ELSE 0

RECURSIVE apply_filters_any_value(_, _, _)
apply_filters_any_value(d, columns, filters) ==
    IF filters = <<>> THEN Return(d)
    ELSE LET key == Head(filters).key
             value == Head(filters).value
             bools == {"volume_surge", "near_52w_high"}
             floats == {"current_price", "relative_volume", "price_change_5d",
                        "price_change_20d", "rsi_value"}
             eq(row) == IF key \in bools THEN row[key] = value.bool
                        ELSE IF key \in floats
                        THEN Eq(row[key], Num(astype_int(value.bool)))
                        ELSE FALSE
             ge(row) == IF key \in bools
                        THEN Ge(Num(astype_int(row[key])), value.num)
                        ELSE Ge(row[key], value.num)
             same(row) == row[key] = value.str
         IN  IF key \notin columns THEN apply_filters_any_value(d, columns, Tail(filters))
             ELSE IF value.type = "bool"
             THEN apply_filters_any_value(SelectSeq(d, eq), columns, Tail(filters))
             ELSE IF value.type \in {"int", "float"}
             THEN IF key \notin bools \cup floats /\ Len(d) > 0 THEN Raise
                  ELSE apply_filters_any_value(SelectSeq(d, ge), columns, Tail(filters))
             ELSE IF key \in bools \cup floats THEN apply_filters_any_value(d, columns, Tail(filters))
                  ELSE apply_filters_any_value(SelectSeq(d, same), columns, Tail(filters))

\* the loop over filters.items() of scan_multiple_tickers: filters is the dict
\* as a sequence of items, columns are the columns of the unfiltered frame.
\* A value has a type and, under the name of its kind, what it is.
\* A bool selects by ==, an int or float by >=, anything else is passed over;
\* >= between a column of str or dict and a number raises TypeError
RECURSIVE apply_filters(_, _, _)
apply_filters(d, columns, filters) ==
    IF filters = <<>> THEN Return(d)
    ELSE LET key == Head(filters).key
             value == Head(filters).value
             bools == {"volume_surge", "near_52w_high"}
             floats == {"current_price", "relative_volume", "price_change_5d",
                        "price_change_20d", "rsi_value"}
             eq(row) == IF key \in bools THEN row[key] = value.bool
                        ELSE IF key \in floats
                        THEN Eq(row[key], Num(astype_int(value.bool)))
                        ELSE FALSE
             ge(row) == IF key \in bools
                        THEN Ge(Num(astype_int(row[key])), value.num)
                        ELSE Ge(row[key], value.num)
         IN  IF key \notin columns THEN apply_filters(d, columns, Tail(filters))
             ELSE IF value.type = "bool"
             THEN apply_filters(SelectSeq(d, eq), columns, Tail(filters))
             ELSE IF value.type \in {"int", "float"}
             THEN IF key \notin bools \cup floats /\ Len(d) > 0 THEN Raise
                  ELSE apply_filters(SelectSeq(d, ge), columns, Tail(filters))
             ELSE apply_filters(d, columns, Tail(filters))

InOrder(a, b, ascending) ==
    isna(b) \/ (~isna(a) /\ IF ascending THEN Le(a, b) ELSE Ge(a, b))

\* the value of column `by` in a row, as a float (breakout_score is an int64)
sort_key(row, by) ==
    IF by = "breakout_score" THEN Num(row[by]) ELSE row[by]

\* d.sort_values(by, ascending=...): the default kind is 'quicksort', which is
\* not stable, so rows with equal keys may come out in any order; nulls go last
sort_values(d, by, ascending) ==
    LET n == Len(d)
        perms == {p \in [1..n -> 1..n] : \A i, j \in 1..n : i # j => p[i] # p[j]}
        sorted(p) ==
            \A i \in 1..n :
                i < n => InOrder(sort_key(d[p[i]], by), sort_key(d[p[i + 1]], by),
                                 ascending)
    IN  {[i \in 1..n |-> d[p[i]]] : p \in {q \in perms : sorted(q)}}

-----------------------------------------------------------------------------
(* src/src/scanner/breakout_scanner.py: the canned scans, after their call of
   scan_multiple_tickers; each yields the set of results the call can have *)

find_high_volume_movers_rest_asc(d, min_rel_volume) ==
    IF df_empty(d) THEN {Return(d)}
    ELSE IF ~HasColumns(d) THEN {Raise}
    ELSE LET keep(row) == Ge(row.relative_volume, min_rel_volume)
         IN  {Return(s) : s \in sort_values(SelectSeq(d, keep), "relative_volume", TRUE)}

find_high_volume_movers_rest(d, min_rel_volume) ==
    IF df_empty(d) THEN {Return(d)}
    ELSE IF ~HasColumns(d) THEN {Raise}
    ELSE LET keep(row) == Ge(row.relative_volume, min_rel_volume)
         IN  {Return(s) : s \in sort_values(SelectSeq(d, keep), "relative_volume", FALSE)}

find_oversold_stocks_rest_desc(d) ==
    IF df_empty(d) THEN {Return(d)}
    ELSE IF ~HasColumns(d) THEN {Raise}
    ELSE LET keep(row) == row.rsi_signal = "oversold"
         IN  {Return(s) : s \in sort_values(SelectSeq(d, keep), "rsi_value", FALSE)}

find_oversold_stocks_rest(d) ==
    IF df_empty(d) THEN {Return(d)}
    ELSE IF ~HasColumns(d) THEN {Raise}
    ELSE LET keep(row) == row.rsi_signal = "oversold"
         IN  {Return(s) : s \in sort_values(SelectSeq(d, keep), "rsi_value", TRUE)}

find_golden_cross_stocks_rest(d) ==
    IF df_empty(d) THEN {Return(d)}
    ELSE IF ~HasColumns(d) THEN {Raise}
    ELSE LET keep(row) == row.ma_crossover = "golden_cross"
         IN  {Return(SelectSeq(d, keep))}

is_candidate_ge(row) ==
    \/ row.is_breaking_out
    \/ (row.near_52w_high /\ row.volume_surge)
    \/ (row.ma_crossover = "golden_cross" /\ Ge(row.relative_volume, [n |-> 3, d |-> 2]))

is_candidate(row) ==
    \/ row.is_breaking_out
    \/ (row.near_52w_high /\ row.volume_surge)
    \/ (row.ma_crossover = "golden_cross" /\ Gt(row.relative_volume, [n |-> 3, d |-> 2]))

breakout_score_flat(row) ==
    astype_int(row.is_breaking_out) * 2
    + astype_int(row.near_52w_high) * 2
    + astype_int(row.volume_surge) * 2
    + astype_int(row.ma_crossover = "golden_cross") * 2

breakout_score(row) ==
    astype_int(row.is_breaking_out) * 3
    + astype_int(row.near_52w_high) * 2
    + astype_int(row.volume_surge) * 2
    + astype_int(row.ma_crossover = "golden_cross") * 2

find_breakout_candidates_rest(d) ==
    IF df_empty(d) THEN {Return(d)}
    ELSE IF ~HasColumns(d) THEN {Raise}
    ELSE LET flagged ==
                 [i \in 1..Len(d) |->
                     d[i] @@ [is_breaking_out |-> d[i].consolidation.breaking_out]]
             breakout_candidates == SelectSeq(flagged, is_candidate)
             scored ==
                 [i \in 1..Len(breakout_candidates) |->
                     breakout_candidates[i]
                         @@ [breakout_score |-> breakout_score(breakout_candidates[i])]]
         IN  {Return(s) : s \in sort_values(scored, "breakout_score", FALSE)}

-----------------------------------------------------------------------------
(* The market data a scan can meet *)

Bar(c, h, l, v) == [c |-> c, h |-> h, l |-> l, v |-> v]

\* n bars: `first`, then `base` repeated, ending with the bars of `last`
MkFrame(n, first, base, last, cols) ==
    LET k == Len(last)
        bar(i) == IF n - i < k THEN last[k - (n - i)]
                  ELSE IF i = 1 THEN first ELSE base
    IN  [Close |-> [i \in 1..n |-> bar(i).c],
         High |-> [i \in 1..n |-> bar(i).h],
         Low |-> [i \in 1..n |-> bar(i).l],
         Volume |-> [i \in 1..n |-> bar(i).v],
         cols |-> cols]

LastBar(shape, v) ==
    CASE shape = "flat" -> Bar(100, 101, 99, v)
      [] shape = "breakout" -> Bar(103, 106, 99, v)
      [] shape = "uptick" -> Bar(101, 101, 99, v)
      [] shape = "downtick" -> Bar(99, 101, 99, v)

\* <<bars, shape of the last bar, whether the first bar has a far higher High,
\*   volume of every earlier bar, volume of the last bar>>
ScanShapes ==
    {<<50, "flat", FALSE, 0, 10>>, <<50, "flat", FALSE, 10, 10>>,
     <<50, "flat", FALSE, 10, 20>>, <<50, "flat", TRUE, 10, 20>>,
     <<50, "flat", FALSE, 10, 30>>,
     <<60, "breakout", FALSE, 10, 10>>, <<60, "breakout", TRUE, 10, 10>>,
     <<60, "breakout", FALSE, 10, 20>>,
     <<205, "breakout", FALSE, 10, 10>>, <<205, "breakout", FALSE, 10, 20>>,
     <<205, "uptick", FALSE, 0, 10>>, <<205, "uptick", FALSE, 10, 10>>,
     <<205, "uptick", FALSE, 10, 16>>, <<205, "uptick", FALSE, 10, 20>>,
     <<205, "uptick", TRUE, 10, 15>>, <<205, "uptick", TRUE, 10, 16>>,
     <<205, "downtick", FALSE, 10, 16>>}

ScanFrames ==
    {MkFrame(sh[1],
             Bar(100, IF sh[3] THEN 200 ELSE 101, 99, sh[4]),
             Bar(100, 101, 99, sh[4]),
             <<LastBar(sh[2], sh[5])>>,
             AllCols) : sh \in ScanShapes}
    \* a rise of 1 and then a fall of 4: RSI 20
    \cup {MkFrame(50, Bar(100, 101, 99, 10), Bar(100, 101, 99, 10),
                  <<Bar(101, 101, 99, 10), Bar(97, 101, 97, 10)>>, AllCols)}
    \cup {MkFrame(49, Bar(100, 101, 99, 10), Bar(100, 101, 99, 10), <<>>, AllCols),
          MkFrame(60, Bar(100, 101, 99, 10), Bar(100, 101, 99, 10), <<>>,
                  AllCols \ {"Volume"})}

\* what fetch_historical_data does: raise ValueError, or return a non-empty frame
FetchOutcomes ==
    {Raise} \cup {[kind |-> "frame", frame |-> f] : f \in ScanFrames}

-----------------------------------------------------------------------------
(* The scanner as a state machine *)

\* bound: the longest ticker list scanned
MaxTickers == 2

\* SP500_SAMPLE
Universe == <<"AAPL", "MSFT", "GOOGL", "AMZN", "META">>

Ops ==
    {"scan_multiple_tickers", "find_high_volume_movers", "find_oversold_stocks",
     "find_golden_cross_stocks", "find_breakout_candidates"}

\* no single function call is under way
PureIdle == fn = "none" /\ arg = None /\ ret = None

Init ==
    /\ op \in Ops
    /\ tickers \in {SubSeq(Universe, 1, k) : k \in 0..MaxTickers}
    /\ idx = 0
    /\ results = <<>>
    /\ fetched = <<>>
    /\ df = None
    /\ out = None
    /\ pc = "scan"
    /\ PureIdle

\* what the history keeps of a fetch
Seen(fetch) ==
    IF fetch.kind = "raise" THEN Raise
    ELSE [kind |-> "frame", nbars |-> len(fetch.frame), cols |-> fetch.frame.cols]

\* every call scan_ticker(ticker, ...) the loop can make, with what the fetch
\* inside it did and what the call returned
ScanCalls ==
    {[ticker |-> Universe[i], fetch |-> Seen(f), signals |-> scan_ticker(Universe[i], f)] :
        i \in 1..MaxTickers, f \in FetchOutcomes}

\* one turn of the loop of scan_multiple_tickers
ScanTicker ==
    /\ pc = "scan"
    /\ idx < Len(tickers)
    /\ \E call \in ScanCalls :
          /\ call.ticker = tickers[idx + 1]
          /\ fetched' = Append(fetched, [ticker |-> call.ticker, fetch |-> call.fetch])
          /\ idx' = idx + 1
          /\ IF call.signals = Raise
             THEN /\ out' = Raise
                  /\ pc' = "done"
                  /\ UNCHANGED results
             ELSE /\ results' = IF call.signals # None
                                THEN Append(results, call.signals)
                                ELSE results
                  /\ UNCHANGED <<out, pc>>
    /\ UNCHANGED <<op, tickers, df>>
    /\ UNCHANGED pureVars

\* the end of scan_multiple_tickers; the canned scans call it without filters,
\* a direct call has its filters in arg (None when not given)
ScanReturn ==
    /\ pc = "scan"
    /\ idx = Len(tickers)
    /\ df' = IF results = <<>> THEN <<>> ELSE DataFrame(results)
    /\ IF op = "scan_multiple_tickers"
       THEN \* if filters:
            /\ out' = IF results = <<>> \/ arg = None THEN Return(df')
                      ELSE apply_filters(df', DOMAIN results[1] \ {"kind"}, arg.items)
            /\ pc' = "done"
       ELSE out' = out /\ pc' = "scanned"
    /\ UNCHANGED <<op, tickers, idx, results, fetched>>
    /\ UNCHANGED pureVars

FindHighVolumeMovers ==
    /\ pc = "scanned"
    /\ op = "find_high_volume_movers"
    /\ out' \in find_high_volume_movers_rest(df, Num(2))
    /\ pc' = "done"
    /\ UNCHANGED <<op, tickers, idx, results, fetched, df>>
    /\ UNCHANGED pureVars

FindOversoldStocks ==
    /\ pc = "scanned"
    /\ op = "find_oversold_stocks"
    /\ out' \in find_oversold_stocks_rest(df)
    /\ pc' = "done"
    /\ UNCHANGED <<op, tickers, idx, results, fetched, df>>
    /\ UNCHANGED pureVars

FindGoldenCrossStocks ==
    /\ pc = "scanned"
    /\ op = "find_golden_cross_stocks"
    /\ out' \in find_golden_cross_stocks_rest(df)
    /\ pc' = "done"
    /\ UNCHANGED <<op, tickers, idx, results, fetched, df>>
    /\ UNCHANGED pureVars

FindBreakoutCandidates ==
    /\ pc = "scanned"
    /\ op = "find_breakout_candidates"
    /\ out' \in find_breakout_candidates_rest(df)
    /\ pc' = "done"
    /\ UNCHANGED <<op, tickers, idx, results, fetched, df>>
    /\ UNCHANGED pureVars

Next ==
    \/ ScanTicker
    \/ ScanReturn
    \/ FindHighVolumeMovers
    \/ FindOversoldStocks
    \/ FindGoldenCrossStocks
    \/ FindBreakoutCandidates

Spec == Init /\ [][Next]_vars

-----------------------------------------------------------------------------
(* Properties of the scanner, checked under Spec *)

\* the history entry of a ticker whose fetch returned at least 50 well-formed bars
Succeeded(h) ==
    /\ h.fetch.kind = "frame"
    /\ h.fetch.nbars >= 50
    /\ h.fetch.cols = AllCols

TickersOf(rows) == [i \in 1..Len(rows) |-> rows[i].ticker]

Called(name) == op = name /\ pc = "done"

\* C1: scan_multiple_tickers never raises because of one ticker, and returns
\* exactly one record per ticker that was fetched with enough history and
\* scanned without an exception, in the order of the ticker list, and no
\* record for any other ticker.
C1_PartialFailureTolerated ==
    /\ op = "scan_multiple_tickers" => out # Raise
    /\ Called("scan_multiple_tickers") =>
          /\ out.kind = "return"
          /\ TickersOf(out.value) = TickersOf(SelectSeq(fetched, Succeeded))

\* a finished scan of two tickers: the first failed (its fetch raised, or the
\* signals raised on a frame without Volume), the second gave the one record
C1_Witness ==
    /\ Called("scan_multiple_tickers")
    /\ Len(tickers) = 2
    /\ \/ fetched[1].fetch = Raise
       \/ (fetched[1].fetch.nbars >= 50 /\ fetched[1].fetch.cols # AllCols)
    /\ Succeeded(fetched[2])
    /\ out.kind = "return"
    /\ TickersOf(out.value) = <<tickers[2]>>

\* C2: find_breakout_candidates returns its records in descending
\* breakout_score order, and records with equal breakout_score keep the
\* relative order their tickers have in the input list.
C2_StableDescendingOrder ==
    (Called("find_breakout_candidates") /\ out.kind = "return") =>
        LET rows == out.value
            pos(t) == CHOOSE k \in 1..Len(tickers) : tickers[k] = t
        IN  \A i, j \in 1..Len(rows) :
                i < j =>
                    \/ rows[i].breakout_score > rows[j].breakout_score
                    \/ /\ rows[i].breakout_score = rows[j].breakout_score
                       /\ pos(rows[i].ticker) < pos(rows[j].ticker)

\* C3: every record find_breakout_candidates returns has breakout_score =
\* 3*[breaking out] + 2*[near 52w high] + 2*[volume surge] + 2*[golden cross].
C3_ScoreFormula ==
    (Called("find_breakout_candidates") /\ out.kind = "return") =>
        \A i \in 1..Len(out.value) :
            LET row == out.value[i]
                b(flag) == IF flag THEN 1 ELSE 0
            IN  row.breakout_score =
                    3 * b(row.consolidation.breaking_out)
                    + 2 * b(row.near_52w_high)
                    + 2 * b(row.volume_surge)
                    + 2 * b(row.ma_crossover = "golden_cross")

\* the example of the specification: breaking out, near the high, no volume
\* surge, golden cross, score 7
C3_Witness ==
    /\ Called("find_breakout_candidates")
    /\ out.kind = "return"
    /\ \E i \in 1..Len(out.value) :
          /\ out.value[i].consolidation.breaking_out
          /\ out.value[i].near_52w_high
          /\ ~out.value[i].volume_surge
          /\ out.value[i].ma_crossover = "golden_cross"
          /\ out.value[i].breakout_score = 7

-----------------------------------------------------------------------------
(* scan_multiple_tickers called with filters *)

\* the items of the filters dicts tried
FilterItems ==
    LET item(k, val) == [key |-> k, value |-> val]
        bool(b) == [type |-> "bool", bool |-> b, num |-> Num(0), str |-> ""]
        int(i) == [type |-> "int", bool |-> FALSE, num |-> Num(i), str |-> ""]
        float(x) == [type |-> "float", bool |-> FALSE, num |-> x, str |-> ""]
        str(t) == [type |-> "str", bool |-> FALSE, num |-> Num(0), str |-> t]
    IN  {<<>>,
         <<item("volume_surge", bool(TRUE))>>,
         <<item("near_52w_high", bool(FALSE))>>,
         <<item("relative_volume", float([n |-> 3, d |-> 2]))>>,
         <<item("rsi_signal", str("oversold"))>>,
         <<item("market_cap", int(5))>>,
         <<item("ma_crossover", int(1))>>,
         <<item("near_52w_high", bool(TRUE)), item("relative_volume", int(2))>>,
         <<item("volume_surge", int(1)), item("relative_volume", bool(TRUE))>>,
         <<item("ticker", bool(TRUE)), item("rsi_signal", int(3))>>}

InitFilters ==
    /\ op = "scan_multiple_tickers"
    /\ tickers \in {SubSeq(Universe, 1, k) : k \in 0..MaxTickers}
    /\ idx = 0
    /\ results = <<>>
    /\ fetched = <<>>
    /\ df = None
    /\ out = None
    /\ pc = "scan"
    /\ fn = "none"
    /\ arg \in {None} \cup {[kind |-> "dict", items |-> f] : f \in FilterItems}
    /\ ret = None

SpecFilters == InitFilters /\ [][ScanTicker \/ ScanReturn]_vars

\* the filter f selects by a column of the records
FilterActs(f) ==
    /\ f.key \in {"ticker", "current_price", "relative_volume", "volume_surge",
                  "rsi_signal", "ma_crossover", "near_52w_high", "consolidation",
                  "price_change_5d", "price_change_20d", "rsi_value"}
    /\ f.value.type \in {"bool", "int", "float"}

\* record[key] == value for a boolean value, record[key] >= value for a number
FilterHolds(record, f) ==
    LET x == record[f.key]
        v == f.value.num
    IN  IF f.key \in {"volume_surge", "near_52w_high"}
        THEN IF f.value.type = "bool" THEN x = f.value.bool
             ELSE (IF x THEN 1 ELSE 0) * v.d >= v.n
        ELSE IF f.key \in {"ticker", "rsi_signal", "ma_crossover", "consolidation"}
        THEN FALSE
        ELSE /\ x # None
             /\ x.d > 0
             /\ IF f.value.type = "bool" THEN x.n = (IF f.value.bool THEN x.d ELSE 0)
                ELSE x.n * v.d >= v.n * x.d

\* C27: after scan_multiple_tickers with filters every returned record
\* satisfies record[key] == value for each boolean filter and record[key] >=
\* value for each numeric filter whose key is a column, the records that
\* satisfy them all are returned in their scan order, and a filter on no
\* column or with a value that is neither boolean nor numeric removes nothing.
C27_FiltersConjunctive ==
    (Called("scan_multiple_tickers") /\ out.kind = "return") =>
        LET filters == IF arg = None THEN <<>> ELSE arg.items
            passes(record) ==
                \A i \in 1..Len(filters) :
                    FilterActs(filters[i]) => FilterHolds(record, filters[i])
        IN  /\ \A k \in 1..Len(out.value) : passes(out.value[k])
            /\ TickersOf(out.value) = TickersOf(SelectSeq(results, passes))
            /\ (\A i \in 1..Len(filters) : ~FilterActs(filters[i])) =>
                   Len(out.value) = Len(results)

\* two filters, two records: the first is near no high and is removed, the
\* second passes both filters
C27_Witness ==
    /\ Called("scan_multiple_tickers")
    /\ out.kind = "return"
    /\ arg # None
    /\ Len(arg.items) = 2
    /\ arg.items[1].key = "near_52w_high"
    /\ Len(results) = 2
    /\ ~results[1].near_52w_high
    /\ TickersOf(out.value) = <<tickers[2]>>

-----------------------------------------------------------------------------
\* C29: every record find_breakout_candidates returns has a breakout_score
\* in {2, 3, 4, 5, 6, 7, 9}: at least 2, at most 9, never 0, 1 or 8.
C29_ScoreValues ==
    (Called("find_breakout_candidates") /\ out.kind = "return") =>
        \A i \in 1..Len(out.value) :
            out.value[i].breakout_score \in {2, 3, 4, 5, 6, 7, 9}

\* the two ends in one result: a record with every signal, score 9, and one
\* kept for its golden cross alone, score 2
C29_Witness ==
    /\ Called("find_breakout_candidates")
    /\ out.kind = "return"
    /\ Len(out.value) = 2
    /\ out.value[1].breakout_score = 9
    /\ out.value[2].breakout_score = 2
    /\ ~out.value[2].near_52w_high
    /\ ~out.value[2].volume_surge

\* C4: find_breakout_candidates never raises, and a scanned record is in its
\* output if and only if it is breaking out, or near the high with a volume
\* surge, or at a golden cross with a defined relative volume above 1.5.
C4_CandidateFilter ==
    Called("find_breakout_candidates") =>
        /\ out.kind = "return"
        /\ LET qualifies(r) ==
                   \/ r.consolidation.breaking_out
                   \/ (r.near_52w_high /\ r.volume_surge)
                   \/ /\ r.ma_crossover = "golden_cross"
                      /\ r.relative_volume # None
                      /\ 2 * r.relative_volume.n > 3 * r.relative_volume.d
               kept == {results[i].ticker : i \in {k \in 1..Len(results) : qualifies(results[k])}}
           IN  /\ {out.value[i].ticker : i \in 1..Len(out.value)} = kept
               /\ Len(out.value) = Cardinality(kept)

\* a finished scan of two golden-cross records: one without a relative volume,
\* left out, and one kept by its relative volume alone
C4_Witness ==
    /\ Called("find_breakout_candidates")
    /\ out.kind = "return"
    /\ Len(results) = 2
    /\ results[1].ma_crossover = "golden_cross"
    /\ results[1].relative_volume = None
    /\ results[2].ma_crossover = "golden_cross"
    /\ ~results[2].consolidation.breaking_out
    /\ ~results[2].volume_surge
    /\ TickersOf(out.value) = <<results[2].ticker>>

\* C5: when no ticker is scanned successfully, scan_multiple_tickers and every
\* canned scan return an empty result set and do not raise.
C5_EmptyScanIsEmptyResult ==
    (pc = "done" /\ \A i \in 1..Len(fetched) : ~Succeeded(fetched[i])) =>
        out = Return(<<>>)

\* a canned scan of two tickers that both failed, returning the empty frame
C5_Witness ==
    /\ Called("find_breakout_candidates")
    /\ Len(tickers) = 2
    /\ Len(fetched) = 2
    /\ \A i \in 1..2 : ~Succeeded(fetched[i])
    /\ out = Return(<<>>)

-----------------------------------------------------------------------------
(* Single calls of the indicator and signal functions: fn is the function
   called, arg its argument, ret what it returned (None until it returns) *)

\* no scan is running
ScanIdle ==
    /\ op = "none"
    /\ tickers = <<>>
    /\ idx = 0
    /\ results = <<>>
    /\ fetched = <<>>
    /\ df = None
    /\ out = None
    /\ pc = "idle"

Returned(name) == fn = name /\ ret # None

-----------------------------------------------------------------------------
(* identify_crossover on two equally indexed Series *)

\* bound: the longest Series enumerated
MaxSeriesLen == 3

SeriesValues == {NaN, Num(1), Num(2), Num(3)}

SeriesOfLen(n) == [1..n -> SeriesValues]

\* test_identify_crossover: series1 and series2
CrossoverExample ==
    <<[i \in 1..10 |-> Num(<<1, 2, 3, 4, 5, 4, 3, 2, 4, 5>>[i])],
      [i \in 1..10 |-> Num(3)]>>

CrossoverInputs ==
    {CrossoverExample}
    \cup UNION {SeriesOfLen(n) \X SeriesOfLen(n) : n \in 0..MaxSeriesLen}

InitCrossover ==
    /\ ScanIdle
    /\ fn = "identify_crossover"
    /\ arg \in CrossoverInputs
    /\ ret = None

CallIdentifyCrossover ==
    /\ fn = "identify_crossover"
    /\ ret = None
    /\ ret' = Return(identify_crossover(arg[1], arg[2]))
    /\ UNCHANGED <<fn, arg>>
    /\ UNCHANGED scanVars

SpecCrossover == InitCrossover /\ [][CallIdentifyCrossover]_vars

\* C9: identify_crossover(A, B) is 1 at index i iff A[i] > B[i] and
\* A[i-1] <= B[i-1], -1 iff A[i] < B[i] and A[i-1] >= B[i-1], and 0 otherwise;
\* it is 0 at the first index and wherever one of the four values is undefined.
C9_CrossoverRule ==
    Returned("identify_crossover") =>
        LET A == arg[1]
            B == arg[2]
            defined(i) == A[i].d # 0 /\ B[i].d # 0 /\ A[i - 1].d # 0 /\ B[i - 1].d # 0
            \* A[i] - B[i] as a signed numerator over a positive denominator
            gap(i) == A[i].n * B[i].d - B[i].n * A[i].d
            bullish(i) == i > 1 /\ defined(i) /\ gap(i) > 0 /\ gap(i - 1) <= 0
            bearish(i) == i > 1 /\ defined(i) /\ gap(i) < 0 /\ gap(i - 1) >= 0
        IN  /\ Len(ret.value) = Len(A)
            /\ \A i \in 1..Len(A) :
                  /\ ret.value[i] = 1 <=> bullish(i)
                  /\ ret.value[i] = -1 <=> bearish(i)
                  /\ ret.value[i] = 0 <=> (~bullish(i) /\ ~bearish(i))

\* a returned call where A starts undefined, is above B at the second index
\* (no signal, the predecessor being undefined) and falls below B at the third
C9_Witness ==
    /\ Returned("identify_crossover")
    /\ arg = <<<<NaN, Num(3), Num(1)>>, <<Num(2), Num(2), Num(2)>>>>
    /\ ret.value = <<0, 0, -1>>

\* C10: for A = [1,2,3,4,5,4,3,2,4,5] and B constantly 3, identify_crossover is
\* bullish at index 3, bearish at index 7 and none at every other index.
C10_ExampleAsClaimed ==
    (Returned("identify_crossover") /\ arg = CrossoverExample) =>
        ret.value = <<0, 0, 0, 1, 0, 0, 0, -1, 0, 0>>

\* C10 as the code has it: bullish at indices 3 and 8 (A rises from 2 to 4
\* through B), bearish at index 7, none at every other index.
C10_ExampleCrossovers ==
    (Returned("identify_crossover") /\ arg = CrossoverExample) =>
        ret.value = <<0, 0, 0, 1, 0, 0, 0, -1, 1, 0>>

\* the example has been run; Python's indices 3, 7 and 8 are 4, 8 and 9 here
C10_Witness ==
    /\ Returned("identify_crossover")
    /\ arg = CrossoverExample
    /\ ret.value[4] = 1
    /\ ret.value[8] = -1
    /\ ret.value[9] = 1

-----------------------------------------------------------------------------
(* Integer arithmetic on the raw columns of a frame, for stating properties *)

RECURSIVE MaxInts(_, _, _)
MaxInts(s, lo, hi) ==
    IF lo = hi THEN s[lo]
    ELSE LET mid == (lo + hi) \div 2
             a == MaxInts(s, lo, mid)
             b == MaxInts(s, mid + 1, hi)
         IN  IF b > a THEN b ELSE a

RECURSIVE SumInts(_, _, _)
SumInts(s, lo, hi) ==
    IF lo > hi THEN 0
    ELSE IF lo = hi THEN s[lo]
    ELSE LET mid == (lo + hi) \div 2
         IN  SumInts(s, lo, mid) + SumInts(s, mid + 1, hi)

\* the highest High of the trailing min(252, length) bars
High52(frame) ==
    LET n == len(frame)
    IN  MaxInts(frame.High, IF n > 252 THEN n - 251 ELSE 1, n)

LastClose(frame) == frame.Close[len(frame)]

-----------------------------------------------------------------------------
(* check_near_52w_high as scan_ticker calls it (threshold 5.0) *)

\* a year of bars at 100 (High 100) around a first bar with High firstHigh,
\* ending with a bar that closes at lastClose
Near52Frames ==
    {MkFrame(n, Bar(100, firstHigh, 90, 10), Bar(100, 100, 90, 10),
             <<Bar(lastClose, 100, 90, 10)>>, AllCols) :
        n \in {1, 2, 252, 253, 254},
        firstHigh \in {100, 120},
        lastClose \in {90, 94, 95, 96, 100, 105, 106, 114, 126}}

InitNear52 ==
    /\ ScanIdle
    /\ fn = "check_near_52w_high"
    /\ arg \in Near52Frames
    /\ ret = None

CallCheckNear52wHigh ==
    /\ fn = "check_near_52w_high"
    /\ ret = None
    /\ ret' = Return(check_near_52w_high(arg, Num(5)))
    /\ UNCHANGED <<fn, arg>>
    /\ UNCHANGED scanVars

SpecNear52 == InitNear52 /\ [][CallCheckNear52wHigh]_vars

\* C6: the near_52w_high flag of a scan record is true exactly when
\* pctFromHigh > -5, that is, check_near_52w_high(df) equals
\* calculate_52_week_high_low(df)['near_52w_high'] for every series.
C6_Near52IsStatsFlag ==
    Returned("check_near_52w_high") =>
        /\ ret.value = calculate_52_week_high_low(arg).near_52w_high
        /\ ret.value <=> 100 * (LastClose(arg) - High52(arg)) > -5 * High52(arg)

\* C6 as the code has it: the flag is true exactly when
\* -5 <= pctFromHigh <= 5, both ends included.
C6_Near52WithinBand ==
    Returned("check_near_52w_high") =>
        (ret.value <=>
            /\ 100 * (LastClose(arg) - High52(arg)) >= -5 * High52(arg)
            /\ 100 * (LastClose(arg) - High52(arg)) <= 5 * High52(arg))

\* 253 bars whose first (High 120) lies outside the 252-bar lookback, closing
\* at 95 under a 52-week high of 100: pctFromHigh is exactly -5 and the flag
\* is set
C6_Witness ==
    /\ Returned("check_near_52w_high")
    /\ len(arg) = 253
    /\ arg.High[1] = 120
    /\ High52(arg) = 100
    /\ LastClose(arg) = 95
    /\ ret.value = TRUE

-----------------------------------------------------------------------------
(* check_consolidation_breakout *)

\* n bars in a 99..101 range; the bar `wide` bars before the last has High 110;
\* the last close is c1, the closes 4 and 5 bars before it are c5 and c6
ConsFrame(n, wide, c1, c5, c6) ==
    LET close(i) == IF n - i = 0 THEN c1
                    ELSE IF n - i = 4 THEN c5
                    ELSE IF n - i = 5 THEN c6
                    ELSE 100
        high(i) == IF n - i = wide THEN 110
                   ELSE IF close(i) > 101 THEN close(i) ELSE 101
        low(i) == IF close(i) < 99 THEN close(i) ELSE 99
    IN  [Close |-> [i \in 1..n |-> close(i)],
         High |-> [i \in 1..n |-> high(i)],
         Low |-> [i \in 1..n |-> low(i)],
         Volume |-> [i \in 1..n |-> 10],
         cols |-> AllCols]

ConsFrames ==
    {ConsFrame(n, wide, c1, c5, c6) :
        n \in {0, 1, 2, 5, 6, 10, 11, 20, 21, 30, 40},
        wide \in {0, 1, 10, 20, 25, 99},
        c1 \in {100, 101, 102, 103},
        c5 \in {98, 100},
        c6 \in {98, 100}}

InitConsolidation ==
    /\ ScanIdle
    /\ fn = "check_consolidation_breakout"
    /\ arg \in ConsFrames
    /\ ret = None

CallCheckConsolidationBreakout ==
    /\ fn = "check_consolidation_breakout"
    /\ ret = None
    /\ ret' = Return(check_consolidation_breakout(arg))
    /\ UNCHANGED <<fn, arg>>
    /\ UNCHANGED scanVars

SpecConsolidation == InitConsolidation /\ [][CallCheckConsolidationBreakout]_vars

\* C7: breaking_out is true exactly when the consolidation flag was true at
\* some bar in positions [-10,-2], is false at the most recent bar, and the
\* close rose at least 2% (exactly 2% counting) against the close 5 bars
\* earlier.
C7_BreakingOutRule ==
    Returned("check_consolidation_breakout") =>
        LET n == len(arg)
            consolidation == detect_consolidation(arg, 20, [n |-> 5, d |-> 100])
            was == \E i \in 1..n : i >= n - 9 /\ i <= n - 1 /\ consolidation[i]
            rose == /\ n > 5
                    /\ 100 * (arg.Close[n] - arg.Close[n - 5]) >= 2 * arg.Close[n - 5]
        IN  ret.value.breaking_out <=> (was /\ ~consolidation[n] /\ rose)

\* the consolidation flag of the most recent bar: the highest High and the
\* lowest Low of the last 20 bars differ by less than 5% of their mean
LastBarConsolidating(frame) ==
    LET n == len(frame)
        hi == CHOOSE h \in {frame.High[i] : i \in (n - 19)..n} :
                  \A i \in (n - 19)..n : frame.High[i] <= h
        lo == CHOOSE l \in {frame.Low[i] : i \in (n - 19)..n} :
                  \A i \in (n - 19)..n : frame.Low[i] >= l
    IN  n >= 20 /\ 200 * (hi - lo) < 5 * (hi + lo)

\* C28: in every result breaking_out implies not in_consolidation,
\* in_consolidation is the consolidation flag of the most recent bar, and
\* for at most 10 bars breaking_out is false.
C28_BreakoutExcludesConsolidation ==
    Returned("check_consolidation_breakout") =>
        /\ ret.value.breaking_out => ~ret.value.in_consolidation
        /\ len(arg) > 0 => (ret.value.in_consolidation <=> LastBarConsolidating(arg))
        /\ len(arg) <= 10 => ~ret.value.breaking_out

\* a breakout: the last bar leaves the range with a close 3% up
C28_Witness ==
    /\ Returned("check_consolidation_breakout")
    /\ len(arg) = 30
    /\ ret.value.breaking_out
    /\ ~ret.value.in_consolidation
    /\ ~LastBarConsolidating(arg)

-----------------------------------------------------------------------------
(* check_ma_crossover *)

\* the closes of the last six bars: 100 with at most two moves away from it
CrossTails ==
    {t \in [1..6 -> {80, 100, 110, 130}] :
        Cardinality({i \in 1..6 : t[i] # 100}) <= 2}

\* n bars closing at 100, the last six closing as tl says
MAFrame(n, tl) ==
    MkFrame(n, Bar(100, 101, 99, 10), Bar(100, 101, 99, 10),
            [i \in 1..6 |-> Bar(tl[i], tl[i] + 1, tl[i] - 1, 10)], AllCols)

MAFrames == {MAFrame(n, tl) : n \in {7, 199, 200, 201, 206}, tl \in CrossTails}

InitMACross ==
    /\ ScanIdle
    /\ fn = "check_ma_crossover"
    /\ arg \in MAFrames
    /\ ret = None

CallCheckMaCrossover ==
    /\ fn = "check_ma_crossover"
    /\ ret = None
    /\ ret' = Return(check_ma_crossover(arg))
    /\ UNCHANGED <<fn, arg>>
    /\ UNCHANGED scanVars

SpecMACross == InitMACross /\ [][CallCheckMaCrossover]_vars

\* 200 * (SMA50 - SMA200) at bar i, defined from bar 200 on
SmaGap(frame, i) ==
    4 * SumInts(frame.Close, i - 49, i) - SumInts(frame.Close, i - 199, i)

\* the 50-bar average is above the 200-bar average at bar i and was not at i-1
GoldenAt(frame, i) ==
    i > 200 /\ SmaGap(frame, i) > 0 /\ SmaGap(frame, i - 1) <= 0

DeathAt(frame, i) ==
    i > 200 /\ SmaGap(frame, i) < 0 /\ SmaGap(frame, i - 1) >= 0

Recent5(frame) == {i \in 1..len(frame) : i > len(frame) - 5}

\* C8: check_ma_crossover returns 'none' below 200 bars; otherwise
\* 'golden_cross' if any of the last 5 bars is a golden cross, else
\* 'death_cross' if any of them is a death cross, else 'none', so golden wins
\* when both occur in the window, whichever came later.
C8_MaCrossoverRule ==
    Returned("check_ma_crossover") =>
        ret.value =
            IF len(arg) < 200 THEN "none"
            ELSE IF \E i \in Recent5(arg) : GoldenAt(arg, i) THEN "golden_cross"
            ELSE IF \E i \in Recent5(arg) : DeathAt(arg, i) THEN "death_cross"
            ELSE "none"

\* a golden cross and a later death cross in the last 5 bars, reported golden
C8_Witness ==
    /\ Returned("check_ma_crossover")
    /\ \E i, j \in Recent5(arg) : i < j /\ GoldenAt(arg, i) /\ DeathAt(arg, j)
    /\ ret.value = "golden_cross"

-----------------------------------------------------------------------------
(* calculate_relative_volume *)

\* n bars of volume `base`; the bar `spikeAt` bars before the last has volume
\* 220 and the last bar has volume `last`.  Prices are flat.
VolFrame(n, base, spikeAt, last) ==
    LET vol(i) == IF i = n THEN last
                  ELSE IF n - i = spikeAt THEN 220
                  ELSE base
    IN  [Close |-> [i \in 1..n |-> 100],
         High |-> [i \in 1..n |-> 101],
         Low |-> [i \in 1..n |-> 99],
         Volume |-> [i \in 1..n |-> vol(i)],
         cols |-> IF n = 0 THEN {} ELSE AllCols]

\* spikeAt 0 is no spike; 1 and 20 are the ends of the 20-bar window, 21 is
\* the bar just before it
VolFrames ==
    {VolFrame(n, base, spikeAt, last) :
        n \in {0, 1, 2, 3, 10, 20, 21, 22, 30},
        base \in {0, 10},
        spikeAt \in {0, 1, 2, 3, 20, 21},
        last \in {0, 10, 19, 20, 30}}

RelVolInputs == {[frame |-> f, period |-> p] : f \in VolFrames, p \in {2, 20}}

InitRelVol ==
    /\ ScanIdle
    /\ fn = "calculate_relative_volume"
    /\ arg \in RelVolInputs
    /\ ret = None

CallCalculateRelativeVolume ==
    /\ fn = "calculate_relative_volume"
    /\ ret = None
    /\ ret' = Return(calculate_relative_volume(arg.frame, arg.period))
    /\ UNCHANGED <<fn, arg>>
    /\ UNCHANGED scanVars

SpecRelVol == InitRelVol /\ [][CallCalculateRelativeVolume]_vars

\* the total volume of the `period` bars before the last one
PriorVolume(frame, period) ==
    SumInts(frame.Volume, len(frame) - period, len(frame) - 1)

\* C11: calculate_relative_volume returns None, without raising, when the
\* frame has fewer than period+1 bars (the empty frame included) or when the
\* mean volume of the `period` bars before the current one is 0; otherwise it
\* returns the current volume divided by that mean.
C11_RelativeVolume ==
    Returned("calculate_relative_volume") =>
        LET n == len(arg.frame)
            p == arg.period
        IN  /\ ret.kind = "return"
            /\ IF n < p + 1 THEN ret.value = None
               ELSE IF PriorVolume(arg.frame, p) = 0 THEN ret.value = None
               ELSE /\ ret.value # None
                    /\ ret.value.d > 0
                    /\ ret.value.n * PriorVolume(arg.frame, p)
                           = arg.frame.Volume[n] * p * ret.value.d

\* 22 bars with default period 20: the bar 21 before the last carries a spike
\* that the window leaves out, the 20 bars before the last average 10, and the
\* last volume 30 gives relative volume 3
C11_Witness ==
    /\ Returned("calculate_relative_volume")
    /\ arg.period = 20
    /\ len(arg.frame) = 22
    /\ arg.frame.Volume[1] = 220
    /\ arg.frame.Volume[22] = 30
    /\ ret.value # None
    /\ ret.value.n = 3 * ret.value.d

-----------------------------------------------------------------------------
(* check_volume_surge, called on its own and from scan_ticker *)

\* thresholds: the default 2.0, and 1.5
SurgeInputs ==
    {[frame |-> f, threshold |-> t] :
        f \in VolFrames, t \in {Num(2), [n |-> 3, d |-> 2]}}

InitSurge ==
    /\ ScanIdle
    /\ fn = "check_volume_surge"
    /\ arg \in SurgeInputs
    /\ ret = None

CallCheckVolumeSurge ==
    /\ fn = "check_volume_surge"
    /\ ret = None
    /\ ret' = Return(check_volume_surge(arg.frame, arg.threshold))
    /\ UNCHANGED <<fn, arg>>
    /\ UNCHANGED scanVars

\* either a scan is run or check_volume_surge is called on its own
InitSurgeOrScan == Init \/ InitSurge

NextSurgeOrScan == Next \/ CallCheckVolumeSurge

SpecSurge == InitSurgeOrScan /\ [][NextSurgeOrScan]_vars

\* C12: check_volume_surge is true iff the relative volume (period 20) is
\* defined and >= threshold, the boundary included, and false when it is
\* undefined; and in every scan record volume_surge is true only if
\* relative_volume is defined and >= 2.
C12_VolumeSurge ==
    /\ Returned("check_volume_surge") =>
          LET f == arg.frame
              n == len(f)
              t == arg.threshold
          IN  ret.value =
                  /\ n >= 21
                  /\ PriorVolume(f, 20) > 0
                  /\ f.Volume[n] * 20 * t.d >= t.n * PriorVolume(f, 20)
    /\ \A i \in 1..Len(results) :
          results[i].volume_surge <=>
              /\ results[i].relative_volume # None
              /\ results[i].relative_volume.n >= 2 * results[i].relative_volume.d

\* a call with the default threshold on 21 bars whose last volume is exactly
\* twice the average of the 20 before it: a surge
C12_Witness ==
    /\ Returned("check_volume_surge")
    /\ arg.threshold = Num(2)
    /\ len(arg.frame) = 21
    /\ PriorVolume(arg.frame, 20) = 200
    /\ arg.frame.Volume[21] = 20
    /\ ret.value = TRUE

-----------------------------------------------------------------------------
(* check_rsi_signal with its default thresholds 30 and 70 *)

\* n bars closing at 100, except that the close rises by `up` at the bar
\* `back`+1 bars before the last and falls by `down` at the bar after it
RsiFrame(n, up, down, back) ==
    LET close(i) == 100 + (IF i >= n - back - 1 THEN up ELSE 0)
                        - (IF i >= n - back THEN down ELSE 0)
    IN  [Close |-> [i \in 1..n |-> close(i)],
         High |-> [i \in 1..n |-> close(i) + 1],
         Low |-> [i \in 1..n |-> close(i) - 1],
         Volume |-> [i \in 1..n |-> 10],
         cols |-> AllCols]

\* back = 13 puts the rise just before the 14 changes RSI looks at
RsiFrames ==
    {RsiFrame(n, up, down, back) :
        n \in {1, 5, 13, 14, 15, 16, 30},
        up \in {0, 3, 7, 8},
        down \in {0, 3, 7, 8},
        back \in {0, 12, 13}}

InitRsiSignal ==
    /\ ScanIdle
    /\ fn = "check_rsi_signal"
    /\ arg \in RsiFrames
    /\ ret = None

CallCheckRsiSignal ==
    /\ fn = "check_rsi_signal"
    /\ ret = None
    /\ ret' = Return(check_rsi_signal(arg, Num(30), Num(70)))
    /\ UNCHANGED <<fn, arg>>
    /\ UNCHANGED scanVars

SpecRsiSignal == InitRsiSignal /\ [][CallCheckRsiSignal]_vars

\* the rises (sign 1) or falls (sign -1) of an integer series, bar by bar;
\* the first bar has no change
Moves(c, sign) ==
    [i \in 1..Len(c) |->
        IF i > 1 /\ sign * (c[i] - c[i - 1]) > 0 THEN sign * (c[i] - c[i - 1]) ELSE 0]

\* total rise and total fall over the last `period` bars
TotalGain(c, period) == SumInts(Moves(c, 1), Len(c) - period + 1, Len(c))

TotalLoss(c, period) == SumInts(Moves(c, -1), Len(c) - period + 1, Len(c))

\* the latest RSI is defined: there are `period` bars and some change in them
RsiDefined(c, period) ==
    /\ Len(c) >= period
    /\ TotalGain(c, period) + TotalLoss(c, period) > 0

\* C13: check_rsi_signal returns 'oversold' iff the latest RSI(14) is defined
\* and < 30, 'overbought' iff it is defined and > 70, and 'neutral' otherwise
\* (RSI exactly 30 or 70, undefined, or too few bars), without raising.
\* With G and L the total gain and loss, RSI = 100*G/(G+L).
C13_RsiSignal ==
    Returned("check_rsi_signal") =>
        LET G == TotalGain(arg.Close, 14)
            L == TotalLoss(arg.Close, 14)
            defined == RsiDefined(arg.Close, 14)
        IN  /\ ret.kind = "return"
            /\ ret.value = "oversold" <=> (defined /\ 100 * G < 30 * (G + L))
            /\ ret.value = "overbought" <=> (defined /\ 100 * G > 70 * (G + L))
            /\ ret.value = "neutral" <=>
                   (~defined \/ (100 * G >= 30 * (G + L) /\ 100 * G <= 70 * (G + L)))

\* 15 bars with a rise of 3 and a fall of 7 in the window: RSI is exactly 30,
\* which is neutral
C13_Witness ==
    /\ Returned("check_rsi_signal")
    /\ len(arg) = 15
    /\ TotalGain(arg.Close, 14) = 3
    /\ TotalLoss(arg.Close, 14) = 7
    /\ ret.value = "neutral"

-----------------------------------------------------------------------------
(* More properties of the scanner, checked under Spec *)

\* the records the loop has collected for ticker t
RecordsOf(t) == {i \in 1..Len(results) : results[i].ticker = t}

\* the history entry of a ticker that scan_ticker skips: its fetch raised or
\* returned fewer than 50 bars
Skipped(h) == h.fetch.kind = "raise" \/ h.fetch.nbars < 50

\* C14: scan_ticker produces no record when the fetch fails or returns fewer
\* than 50 bars, and one record for every fetched OHLCV series of at least 50
\* bars; a skipped ticker contributes no row to the result of any scan.
C14_ShortOrFailedFetchSkipped ==
    /\ \A i \in 1..Len(fetched) :
          /\ Skipped(fetched[i]) => RecordsOf(fetched[i].ticker) = {}
          /\ Succeeded(fetched[i]) => Cardinality(RecordsOf(fetched[i].ticker)) = 1
    /\ (pc = "done" /\ out.kind = "return") =>
          \A i \in 1..Len(fetched) :
              Skipped(fetched[i]) =>
                  \A k \in 1..Len(out.value) : out.value[k].ticker # fetched[i].ticker

\* a finished scan of two tickers: the first came with 49 bars and is skipped,
\* the second came with exactly 50 bars and is the only row returned
C14_Witness ==
    /\ Called("scan_multiple_tickers")
    /\ Len(fetched) = 2
    /\ fetched[1].fetch.kind = "frame"
    /\ fetched[1].fetch.nbars = 49
    /\ Succeeded(fetched[2])
    /\ fetched[2].fetch.nbars = 50
    /\ out.kind = "return"
    /\ TickersOf(out.value) = <<tickers[2]>>

\* a record's relative volume is defined and at least k
RelVolAtLeast(r, k) ==
    /\ r.relative_volume # None
    /\ r.relative_volume.n >= k * r.relative_volume.d

\* rows is ordered by the finite rational column c, ascending or descending
OrderedBy(rows, c, ascending) ==
    \A i, j \in 1..Len(rows) :
        i < j =>
            IF ascending
            THEN rows[i][c].n * rows[j][c].d <= rows[j][c].n * rows[i][c].d
            ELSE rows[i][c].n * rows[j][c].d >= rows[j][c].n * rows[i][c].d

\* rows holds exactly the records of `results` that satisfy Keep, once each
ExactlyTheRecords(rows, Keep(_)) ==
    /\ {rows[i].ticker : i \in 1..Len(rows)}
           = {results[i].ticker : i \in {k \in 1..Len(results) : Keep(results[k])}}
    /\ \A i, j \in 1..Len(rows) : i # j => rows[i].ticker # rows[j].ticker

\* C15: find_high_volume_movers returns, without error, exactly the scanned
\* records whose relative volume is defined and >= min_rel_volume (2.0),
\* sorted by descending relative volume.
C15_HighVolumeMovers ==
    Called("find_high_volume_movers") =>
        /\ out.kind = "return"
        /\ LET keep(r) == RelVolAtLeast(r, 2)
           IN  ExactlyTheRecords(out.value, keep)
        /\ \A i \in 1..Len(out.value) : out.value[i].relative_volume.d > 0
        /\ OrderedBy(out.value, "relative_volume", FALSE)

\* two records scanned in the order relative volume 2, relative volume 3 and
\* returned in the order 3, 2
C15_Witness ==
    /\ Called("find_high_volume_movers")
    /\ out.kind = "return"
    /\ Len(results) = 2
    /\ RelVolAtLeast(results[1], 2)
    /\ ~RelVolAtLeast(results[1], 3)
    /\ RelVolAtLeast(results[2], 3)
    /\ TickersOf(out.value) = <<results[2].ticker, results[1].ticker>>

\* C16: find_oversold_stocks returns exactly the records with rsi_signal
\* 'oversold', sorted by ascending rsi_value, each with rsi_value < 30;
\* find_golden_cross_stocks returns exactly the records with ma_crossover
\* 'golden_cross', in scan order.
C16_OversoldAndGoldenCross ==
    /\ Called("find_oversold_stocks") =>
          /\ out.kind = "return"
          /\ LET keep(r) == r.rsi_signal = "oversold"
             IN  ExactlyTheRecords(out.value, keep)
          /\ \A i \in 1..Len(out.value) :
                /\ out.value[i].rsi_value.d > 0
                /\ out.value[i].rsi_value.n < 30 * out.value[i].rsi_value.d
          /\ OrderedBy(out.value, "rsi_value", TRUE)
    /\ Called("find_golden_cross_stocks") =>
          /\ out.kind = "return"
          /\ LET keep(r) == r.ma_crossover = "golden_cross"
             IN  TickersOf(out.value) = TickersOf(SelectSeq(results, keep))

\* two oversold records scanned in the order RSI 20, RSI 0 and returned in
\* the order RSI 0, RSI 20
C16_Witness ==
    /\ Called("find_oversold_stocks")
    /\ out.kind = "return"
    /\ Len(results) = 2
    /\ results[1].rsi_signal = "oversold"
    /\ results[2].rsi_signal = "oversold"
    /\ results[1].rsi_value.n > 0
    /\ results[2].rsi_value.n = 0
    /\ TickersOf(out.value) = <<results[2].ticker, results[1].ticker>>

-----------------------------------------------------------------------------
(* calculate_sma *)

\* bound: the largest window tried
MaxWindow == 4

\* every Series over {NaN, 1, 2} up to the length bound, with every window
\* from -1 to the window bound
SmaInputs ==
    {[data |-> d, period |-> w] :
        d \in UNION {[1..n -> {NaN, Num(1), Num(2)}] : n \in 0..MaxSeriesLen},
        w \in -1..MaxWindow}

CallCalculateSma ==
    /\ fn = "calculate_sma"
    /\ ret = None
    /\ ret' = calculate_sma_call(arg.data, arg.period)
    /\ UNCHANGED <<fn, arg>>
    /\ UNCHANGED scanVars

NoneUndefined(s) == \A i \in 1..Len(s) : s[i].d # 0

\* C17: for a window w >= 1 and a series of length n without undefined
\* values, calculate_sma returns a series of length n that is undefined at
\* (0-based) indices 0..w-2 and defined at every index >= w-1; for n < w
\* the whole output is undefined, and nothing is raised.
C17_SmaWarmUp ==
    (Returned("calculate_sma") /\ arg.period >= 1 /\ NoneUndefined(arg.data)) =>
        /\ ret.kind = "return"
        /\ Len(ret.value) = Len(arg.data)
        /\ \A i \in 1..Len(arg.data) :
              IF i < arg.period
              THEN ret.value[i].d = 0 /\ ret.value[i].n = 0
              ELSE ret.value[i].d > 0

\* window 2 on [1, 2, 2]: undefined, then the means 3/2 and 2
C17_Witness ==
    /\ Returned("calculate_sma")
    /\ arg.period = 2
    /\ arg.data = <<Num(1), Num(2), Num(2)>>
    /\ ret.kind = "return"
    /\ ret.value[1] = NaN
    /\ 2 * ret.value[2].n = 3 * ret.value[2].d
    /\ ret.value[3].n = 2 * ret.value[3].d

\* C18: calculate_sma called with a window <= 0 (0 or negative) fails with
\* an invalid-parameter error instead of returning a series.
C18_NonPositiveWindowRejected ==
    (Returned("calculate_sma") /\ arg.period <= 0) => ret = Raise

-----------------------------------------------------------------------------
(* calculate_rsi *)

\* n bars closing at 100, 101, 102, ... (step 1) or 100, 99, 98, ... (step -1)
Trend(n, step) == [i \in 1..n |-> Num(100 + step * (i - 1))]

\* every short Series with every small period; the closes of the
\* check_rsi_signal frames and rising and falling closes with period 14
\* (50 rising bars are test_rsi_boundary_values)
RsiInputs ==
    {[data |-> d, period |-> w] :
        d \in UNION {SeriesOfLen(n) : n \in 0..MaxSeriesLen},
        w \in -1..MaxWindow}
    \cup {[data |-> Col(f, "Close"), period |-> 14] : f \in RsiFrames}
    \cup {[data |-> Trend(n, step), period |-> 14] :
              n \in {14, 15, 16, 50}, step \in {1, -1}}

CallCalculateRsi ==
    /\ fn = "calculate_rsi"
    /\ ret = None
    /\ ret' = calculate_rsi_call(arg.data, arg.period)
    /\ UNCHANGED <<fn, arg>>
    /\ UNCHANGED scanVars

\* the rise (sign 1) or fall (sign -1) into bar i of a Series of integers
\* and NaN: 0 at the first bar and next to an undefined value
Change(s, i, sign) ==
    IF i > 1 /\ s[i].d = 1 /\ s[i - 1].d = 1 /\ sign * (s[i].n - s[i - 1].n) > 0
    THEN sign * (s[i].n - s[i - 1].n)
    ELSE 0

\* the total rise or fall over the `period` bars that end at bar i
WindowChange(s, i, period, sign) ==
    SumInts([k \in 1..Len(s) |-> Change(s, k, sign)], i - period + 1, i)

StrictlyIncreasing(s) ==
    \A i \in 2..Len(s) : s[i].d = 1 /\ s[i - 1].d = 1 /\ s[i].n > s[i - 1].n

\* C19: where the trailing window has average loss 0 and average gain > 0
\* the RSI is exactly 100, so strictly increasing prices over >= 15 bars give
\* a last RSI (period 14) above 70; where average gain and loss are both 0
\* the RSI is undefined.
C19_RsiWithoutLosses ==
    (Returned("calculate_rsi") /\ arg.period >= 1) =>
        /\ ret.kind = "return"
        /\ \A i \in arg.period..Len(arg.data) :
              LET G == WindowChange(arg.data, i, arg.period, 1)
                  L == WindowChange(arg.data, i, arg.period, -1)
              IN  /\ (L = 0 /\ G > 0) =>
                        (ret.value[i].d > 0 /\ ret.value[i].n = 100 * ret.value[i].d)
                  /\ (L = 0 /\ G = 0) => isna(ret.value[i])
        /\ (arg.period = 14 /\ Len(arg.data) >= 15 /\ StrictlyIncreasing(arg.data)) =>
              Gt(ret.value[Len(arg.data)], Num(70))

\* test_rsi_boundary_values: 50 rising bars end at RSI 100
C19_Witness ==
    /\ Returned("calculate_rsi")
    /\ arg.period = 14
    /\ arg.data = Trend(50, 1)
    /\ ret.kind = "return"
    /\ ret.value[50].n = 100 * ret.value[50].d
    /\ ret.value[50].d > 0
    /\ isna(ret.value[13])

\* C20: every defined value calculate_rsi returns lies in [0, 100], and the
\* returned Series is as long as the input.
C20_RsiRange ==
    (Returned("calculate_rsi") /\ ret.kind = "return") =>
        /\ Len(ret.value) = Len(arg.data)
        /\ \A i \in 1..Len(ret.value) :
              \/ isna(ret.value[i])
              \/ /\ ret.value[i].d > 0
                 /\ 0 <= ret.value[i].n
                 /\ ret.value[i].n <= 100 * ret.value[i].d

\* a rise of 3 and a fall of 7 inside the window: RSI 30, strictly inside
\* the range
C20_Witness ==
    /\ Returned("calculate_rsi")
    /\ Len(arg.data) = 15
    /\ WindowChange(arg.data, 15, 14, 1) = 3
    /\ WindowChange(arg.data, 15, 14, -1) = 7
    /\ ret.kind = "return"
    /\ ret.value[15].d > 0
    /\ ret.value[15].n = 30 * ret.value[15].d

-----------------------------------------------------------------------------
(* calculate_obv *)

\* obv.iloc[i] for 0-based i >= 1, given obv.iloc[i - 1]; this variant counts
\* an unchanged close as a rise
obv_step_ge(frame, i, prev) ==
    IF Ge(Num(frame.Close[i]), Num(frame.Close[i - 1]))
    THEN Add(prev, Num(frame.Volume[i]))
    ELSE IF Lt(Num(frame.Close[i]), Num(frame.Close[i - 1]))
    THEN Sub(prev, Num(frame.Volume[i]))
    ELSE prev

\* the body of the for loop: obv.iloc[i] from obv.iloc[i - 1]
obv_step(frame, i, prev) ==
    IF Gt(Num(frame.Close[i]), Num(frame.Close[i - 1]))
    THEN Add(prev, Num(frame.Volume[i]))
    ELSE IF Lt(Num(frame.Close[i]), Num(frame.Close[i - 1]))
    THEN Sub(prev, Num(frame.Volume[i]))
    ELSE prev

\* the Series obv after the loop has run up to index i
RECURSIVE obv_loop(_, _)
obv_loop(frame, i) ==
    IF i = 1 THEN <<Num(frame.Volume[1])>>
    ELSE LET obv == obv_loop(frame, i - 1)
         IN  Append(obv, obv_step(frame, i, obv[i - 1]))

\* obv.iloc[0] = df['Volume'].iloc[0] is an IndexError on an empty frame
calculate_obv(frame) ==
    IF len(frame) = 0 THEN Raise
    ELSE Return(obv_loop(frame, len(frame)))

\* test_obv_direction
ObvExample ==
    [Close |-> <<100, 101, 102, 101, 103>>,
     Volume |-> <<1000, 1000, 1000, 1000, 1000>>]

\* every frame of closes in {1, 2, 3} and volumes in {0, 5, 7} up to the
\* length bound, and the test's frame
ObvFrames ==
    UNION {{[Close |-> c, Volume |-> v] :
                c \in [1..n -> {1, 2, 3}], v \in [1..n -> {0, 5, 7}]} :
           n \in 0..MaxSeriesLen}
    \cup {ObvExample}

CallCalculateObv ==
    /\ fn = "calculate_obv"
    /\ ret = None
    /\ ret' = calculate_obv(arg)
    /\ UNCHANGED <<fn, arg>>
    /\ UNCHANGED scanVars

\* C21: calculate_obv is defined at every index, obv[0] = volume[0], and
\* obv[i] is obv[i-1] + volume[i] after a higher close, obv[i-1] - volume[i]
\* after a lower close and obv[i-1] after an equal close; so with positive
\* volume it rises (falls) by exactly the bar's volume on up (down) bars.
C21_ObvRecurrence ==
    (Returned("calculate_obv") /\ len(arg) > 0) =>
        /\ ret.kind = "return"
        /\ Len(ret.value) = len(arg)
        /\ \A i \in 1..len(arg) : ret.value[i].d = 1
        /\ ret.value[1].n = arg.Volume[1]
        /\ \A i \in 2..len(arg) :
              ret.value[i].n - ret.value[i - 1].n =
                  Sign(arg.Close[i] - arg.Close[i - 1]) * arg.Volume[i]

\* test_obv_direction: 1000, 2000, 3000, 2000, 3000
C21_Witness ==
    /\ Returned("calculate_obv")
    /\ arg = ObvExample
    /\ ret.kind = "return"
    /\ ret.value = <<Num(1000), Num(2000), Num(3000), Num(2000), Num(3000)>>

-----------------------------------------------------------------------------
(* add_all_indicators and the indicators it adds *)

RECURSIVE Gcd(_, _)
Gcd(a, b) == IF b = 0 THEN a ELSE Gcd(b, a % b)

\* the same float with numerator and denominator in lowest terms
Reduce(x) ==
    IF x.d = 0 THEN x
    ELSE LET g == Gcd(IF x.n < 0 THEN -x.n ELSE x.n, x.d)
         IN  [n |-> x.n \div g, d |-> x.d \div g]

\* a + b, with the result in lowest terms
AddR(a, b) ==
    IF a.d = 0 \/ b.d = 0 THEN Add(a, b)
    ELSE LET g == Gcd(a.d, b.d)
         IN  Reduce([n |-> a.n * (b.d \div g) + b.n * (a.d \div g),
                     d |-> (a.d \div g) * b.d])

\* data.ewm(span=span, adjust=False).mean() of a Series without missing
\* values: y[0] = x[0], y[t] = alpha x[t] + (1 - alpha) y[t-1] with
\* alpha = 2 / (span + 1)
RECURSIVE ewm_mean(_, _)
ewm_mean(s, span) ==
    IF Len(s) <= 1 THEN s
    ELSE LET n == Len(s)
             y == ewm_mean(SubSeq(s, 1, n - 1), span)
             alpha == [n |-> 2, d |-> span + 1]
         IN  Append(y, AddR(Reduce(Mul(alpha, s[n])),
                            Reduce(Mul(Sub(Num(1), alpha), y[n - 1]))))

calculate_ema(data, period) == ewm_mean(data, period)

\* (macd_line, signal_line, histogram) with the default periods 12, 26, 9
calculate_macd(data) ==
    LET ema_fast == calculate_ema(data, 12)
        ema_slow == calculate_ema(data, 26)
        macd_line == [i \in 1..Len(data) |-> AddR(ema_fast[i], Neg(ema_slow[i]))]
        signal_line == calculate_ema(macd_line, 9)
        histogram == [i \in 1..Len(data) |-> AddR(macd_line[i], Neg(signal_line[i]))]
    IN  <<macd_line, signal_line, histogram>>

\* s.rolling(window=w).std(): the sample standard deviation (ddof = 1) of
\* the last w values, undefined until w observations are in the window; the
\* square root is taken exactly, of a variance that is a perfect square
rolling_std(s, w) ==
    [i \in 1..Len(s) |->
        IF i < w THEN NaN
        ELSE LET sum == SumRange(s, i - w + 1, i)
                 sq == [k \in 1..Len(s) |-> Mul(s[k], s[k])]
                 sumsq == SumRange(sq, i - w + 1, i)
                 var == Reduce(Div(Sub(sumsq, Div(Mul(sum, sum), Num(w))),
                                   Num(w - 1)))
             IN  IF var.d = 0 THEN var
                 ELSE [n |-> CHOOSE k \in 0..var.n : k * k = var.n,
                       d |-> CHOOSE k \in 1..var.d : k * k = var.d]]

\* (upper_band, middle_band, lower_band) with the defaults period 20,
\* std_dev 2.0
calculate_bollinger_bands(data) ==
    LET middle_band == calculate_sma(data, 20)
        std == rolling_std(data, 20)
    IN  <<[i \in 1..Len(data) |-> Add(middle_band[i], Mul(std[i], Num(2)))],
          middle_band,
          [i \in 1..Len(data) |-> Sub(middle_band[i], Mul(std[i], Num(2)))]>>

\* s.cumsum()
RECURSIVE cumsum(_)
cumsum(s) ==
    IF Len(s) <= 1 THEN s
    ELSE LET n == Len(s)
             c == cumsum(SubSeq(s, 1, n - 1))
         IN  Append(c, AddR(c[n - 1], s[n]))

calculate_vwap(frame) ==
    LET n == len(frame)
        volume == Col(frame, "Volume")
        typical_price == [i \in 1..n |->
            Div(Num(frame.High[i] + frame.Low[i] + frame.Close[i]), Num(3))]
        pv == cumsum([i \in 1..n |-> Mul(typical_price[i], volume[i])])
        v == cumsum(volume)
    IN  [i \in 1..n |-> Reduce(Div(pv[i], v[i]))]

\* frame[c] = s for every column c of `written`: the other columns stay
setitems(frame, written) ==
    [c \in DOMAIN frame \cup DOMAIN written |->
        IF c \in DOMAIN written THEN written[c] ELSE frame[c]]

df_copy_alias(frame) == [obj |-> "input", frame |-> frame]

\* result_df = df.copy(): a new object holding the same columns
df_copy(frame) == [obj |-> "copy", frame |-> frame]

\* the call add_all_indicators(df): what it returns (or that it raises) and
\* the object df as it is after the call
add_all_indicators(frame) ==
    LET result_df == df_copy(frame)
        close == Col(frame, "Close")
        macd == calculate_macd(close)
        bb == calculate_bollinger_bands(close)
        from_close == setitems(result_df.frame,
            [SMA_20 |-> calculate_sma(close, 20),
             SMA_50 |-> calculate_sma(close, 50),
             SMA_200 |-> calculate_sma(close, 200),
             EMA_12 |-> calculate_ema(close, 12),
             EMA_26 |-> calculate_ema(close, 26),
             RSI |-> calculate_rsi(close, 14),
             MACD |-> macd[1],
             MACD_Signal |-> macd[2],
             MACD_Histogram |-> macd[3],
             BB_Upper |-> bb[1],
             BB_Middle |-> bb[2],
             BB_Lower |-> bb[3]])
        with_vwap == setitems(from_close, [VWAP |-> calculate_vwap(frame)])
        with_obv == setitems(with_vwap, [OBV |-> calculate_obv(frame).value])
        \* what the caller's df holds once result_df holds w
        after(w) == IF result_df.obj = "input" THEN w ELSE frame
    IN  \* df['Close']: KeyError
        IF "Close" \notin DOMAIN frame
        THEN [df |-> frame, out |-> Raise]
        ELSE IF "Volume" \notin DOMAIN frame
        THEN [df |-> after(from_close), out |-> Return(from_close)]
        \* calculate_vwap: df['High'], df['Low'] KeyError
        ELSE IF ~({"High", "Low"} \subseteq DOMAIN frame)
        THEN [df |-> after(from_close), out |-> Raise]
        \* calculate_obv: IndexError on a frame without rows
        ELSE IF calculate_obv(frame) = Raise
        THEN [df |-> after(with_vwap), out |-> Raise]
        ELSE [df |-> after(with_obv), out |-> Return(with_obv)]

\* the frame with the given columns and bars; a column that is not one of
\* OHLCV holds 7 in every row
IndicatorFrame(cols, bars) ==
    [c \in cols |->
        [i \in 1..Len(bars) |->
            CASE c = "Open" -> bars[i][1]
              [] c = "High" -> bars[i][2]
              [] c = "Low" -> bars[i][3]
              [] c = "Close" -> bars[i][4]
              [] c = "Volume" -> bars[i][5]
              [] OTHER -> 7]]

\* frames of 0 to 3 bars (Open, High, Low, Close, Volume) and of 21 equal
\* bars (the 20-bar averages and deviations are defined on the last two);
\* as columns a whole OHLCV frame, one with a further column, one that
\* already has an RSI column, and frames lacking columns
IndicatorFrames ==
    {IndicatorFrame(cols, bars) :
        cols \in {{"Open", "High", "Low", "Close", "Volume"},
                  {"Open", "High", "Low", "Close", "Volume", "Dividends"},
                  {"Open", "High", "Low", "Close", "Volume", "RSI"},
                  {"Close", "Volume"},
                  {"Close"},
                  {}},
        bars \in UNION {[1..n -> {<<100, 101, 99, 100, 10>>,
                                  <<100, 103, 100, 102, 0>>,
                                  <<102, 102, 98, 99, 20>>}] : n \in 0..3}
                 \cup {[i \in 1..21 |-> <<100, 101, 99, 100, 10>>]}}

InitIndicators ==
    /\ ScanIdle
    /\ fn = "add_all_indicators"
    /\ arg \in IndicatorFrames
    /\ ret = None

\* one call on the object df (arg); ret keeps df as it was before the first
\* call and the outcome of each call so far
CallAddAllIndicators ==
    /\ fn = "add_all_indicators"
    /\ IF ret = None THEN TRUE ELSE Len(ret.outs) < 2
    /\ LET call == add_all_indicators(arg)
       IN  /\ arg' = call.df
           /\ ret' = IF ret = None
                     THEN [kind |-> "calls", before |-> arg, outs |-> <<call.out>>]
                     ELSE [ret EXCEPT !.outs = Append(@, call.out)]
    /\ UNCHANGED fn
    /\ UNCHANGED scanVars

SpecIndicators == InitIndicators /\ [][CallAddAllIndicators]_vars

\* the names of the columns written from Close, and from Volume
CloseIndicators ==
    {"SMA_20", "SMA_50", "SMA_200", "EMA_12", "EMA_26", "RSI", "MACD",
     "MACD_Signal", "MACD_Histogram", "BB_Upper", "BB_Middle", "BB_Lower"}

VolumeIndicators == {"VWAP", "OBV"}

\* C22: add_all_indicators leaves its input frame as it was (columns and
\* values), every original column is in the output (with its values, unless
\* it has the name of an indicator), and a second call on the same input
\* gives the same output as the first.
C22_InputKeptAndRepeatable ==
    Returned("add_all_indicators") =>
        /\ arg = ret.before
        /\ \A k \in 1..Len(ret.outs) :
              ret.outs[k].kind = "return" =>
                  /\ DOMAIN ret.before \subseteq DOMAIN ret.outs[k].value
                  /\ \A c \in DOMAIN ret.before \ (CloseIndicators \cup VolumeIndicators) :
                        ret.outs[k].value[c] = ret.before[c]
        /\ Len(ret.outs) = 2 => ret.outs[1] = ret.outs[2]

\* two calls on three OHLCV bars with a further column: both return the
\* frame with the 14 indicator columns added
C22_Witness ==
    /\ Returned("add_all_indicators")
    /\ Len(ret.outs) = 2
    /\ ret.outs[2].kind = "return"
    /\ DOMAIN ret.before = {"Open", "High", "Low", "Close", "Volume", "Dividends"}
    /\ Len(ret.before.Close) = 3
    /\ DOMAIN ret.outs[2].value =
           DOMAIN ret.before \cup CloseIndicators \cup VolumeIndicators
    /\ ret.outs[2].value.OBV # ret.outs[2].value.EMA_12

-----------------------------------------------------------------------------
(* src/src/analysis/patterns.py: candlestick patterns, support and          *)
(* resistance, the pattern summary                                           *)

\* df[['Open', 'Close']].max(axis=1) and .min(axis=1) at bar i
BodyTop(frame, i) ==
    IF frame.Open[i] > frame.Close[i] THEN frame.Open[i] ELSE frame.Close[i]

BodyBottom(frame, i) ==
    IF frame.Open[i] < frame.Close[i] THEN frame.Open[i] ELSE frame.Close[i]

identify_doji_nan_true(frame, threshold) ==
    [i \in 1..len(frame) |->
        LET body_size == Abs(Num(frame.Close[i] - frame.Open[i]))
            candle_range == Num(frame.High[i] - frame.Low[i])
            body_percentage == Mul(Div(body_size, candle_range), Num(100))
        IN  IF isna(body_percentage) THEN TRUE
            ELSE Lt(body_percentage, threshold)]

\* candle_range.replace(0, np.nan) makes the percentage of a bar without
\* range NaN, and NaN < threshold is False
identify_doji(frame, threshold) ==
    [i \in 1..len(frame) |->
        LET body_size == Abs(Num(frame.Close[i] - frame.Open[i]))
            range == Num(frame.High[i] - frame.Low[i])
            candle_range == IF range.n = 0 THEN NaN ELSE range
            body_percentage == Mul(Div(body_size, candle_range), Num(100))
        IN  Lt(body_percentage, threshold)]

\* (bullish_engulfing, bearish_engulfing); shift(1) is NaN at the first bar
identify_engulfing(frame) ==
    LET curr_open == Col(frame, "Open")
        curr_close == Col(frame, "Close")
        prev_open == shift1(curr_open)
        prev_close == shift1(curr_close)
    IN  [bullish |-> [i \in 1..len(frame) |->
            /\ Lt(prev_close[i], prev_open[i])
            /\ Gt(curr_close[i], curr_open[i])
            /\ Lt(curr_open[i], prev_close[i])
            /\ Gt(curr_close[i], prev_open[i])],
         bearish |-> [i \in 1..len(frame) |->
            /\ Gt(prev_close[i], prev_open[i])
            /\ Lt(curr_close[i], curr_open[i])
            /\ Gt(curr_open[i], prev_close[i])
            /\ Lt(curr_close[i], prev_open[i])]]

identify_hammer(frame, ratio) ==
    [i \in 1..len(frame) |->
        LET body == Abs(Num(frame.Close[i] - frame.Open[i]))
            lower_shadow == Num(BodyBottom(frame, i) - frame.Low[i])
            upper_shadow == Num(frame.High[i] - BodyTop(frame, i))
            candle_range == Num(frame.High[i] - frame.Low[i])
        IN  /\ Gt(lower_shadow, Mul(ratio, body))
            /\ Lt(upper_shadow, body)
            /\ Lt(body, Mul([n |-> 3, d |-> 10], candle_range))]

identify_shooting_star_as_hammer(frame, ratio) == identify_hammer(frame, ratio)

identify_shooting_star(frame, ratio) ==
    [i \in 1..len(frame) |->
        LET body == Abs(Num(frame.Close[i] - frame.Open[i]))
            lower_shadow == Num(BodyBottom(frame, i) - frame.Low[i])
            upper_shadow == Num(frame.High[i] - BodyTop(frame, i))
            candle_range == Num(frame.High[i] - frame.Low[i])
        IN  /\ Gt(upper_shadow, Mul(ratio, body))
            /\ Lt(lower_shadow, body)
            /\ Lt(body, Mul([n |-> 3, d |-> 10], candle_range))]

\* the positions of the strict local minima of Low (sign 1) or maxima of
\* High (sign -1): shift(1) and shift(-1) are NaN at the two ends, where the
\* comparisons are False
local_extrema(s, sign) ==
    {i \in 2..(Len(s) - 1) :
        sign * s[i - 1] > sign * s[i] /\ sign * s[i + 1] > sign * s[i]}

\* s.nlargest(k).unique() (sign 1) or s.nsmallest(k).unique() (sign -1) of
\* the values of s at the positions `at`, as a set
n_extreme_unique(s, at, k, sign) ==
    {s[i] : i \in {j \in at :
        Cardinality({m \in at : sign * s[m] > sign * s[j]}) < k}}

\* sorted(values, reverse=reverse): a Python list
RECURSIVE sorted(_, _)
sorted(values, reverse) ==
    IF values = {} THEN <<>>
    ELSE LET first == CHOOSE v \in values : \A u \in values :
                          IF reverse THEN u <= v ELSE u >= v
         IN  <<first>> \o sorted(values \ {first}, reverse)

\* list.tolist(): a Python list has no attribute tolist (AttributeError)
tolist(list) == Raise

find_support_resistance_levels(frame, num_levels) ==
    LET \* list[:k]
        slice_to(list, k) == SubSeq(list, 1, IF Len(list) < k THEN Len(list) ELSE k)
        local_min == local_extrema(frame.Low, 1)
        local_max == local_extrema(frame.High, -1)
        support_levels ==
            slice_to(sorted(n_extreme_unique(frame.Low, local_min,
                                             num_levels * 2, 1), FALSE),
                     num_levels)
        resistance_levels ==
            slice_to(sorted(n_extreme_unique(frame.High, local_max,
                                             num_levels * 2, -1), TRUE),
                     num_levels)
        support == tolist(support_levels)
        resistance == tolist(resistance_levels)
    IN  IF support = Raise \/ resistance = Raise THEN Raise
        ELSE Return(<<support.value, resistance.value>>)

\* the pattern columns add_all_patterns adds
add_all_patterns(frame) ==
    [Doji |-> identify_doji(frame, [n |-> 1, d |-> 10]),
     Bullish_Engulfing |-> identify_engulfing(frame).bullish,
     Bearish_Engulfing |-> identify_engulfing(frame).bearish,
     Hammer |-> identify_hammer(frame, Num(2)),
     Shooting_Star |-> identify_shooting_star(frame, Num(2)),
     Consolidation |-> detect_consolidation(frame, 20, [n |-> 5, d |-> 100])]

summarize_patterns(frame) ==
    LET recent == add_all_patterns(frame)
        \* recent[column].sum() over the last 30 bars
        count_recent(column) ==
            Cardinality({i \in 1..Len(tail(column, 30)) : tail(column, 30)[i]})
        levels == find_support_resistance_levels(frame, 3)
    IN  IF levels = Raise THEN Raise
        \* calculate_52_week_high_low: df['Close'].iloc[-1] IndexError
        ELSE IF len(frame) = 0 THEN Raise
        ELSE Return(
            [doji_count |-> count_recent(recent.Doji),
             bullish_engulfing_count |-> count_recent(recent.Bullish_Engulfing),
             bearish_engulfing_count |-> count_recent(recent.Bearish_Engulfing),
             hammer_count |-> count_recent(recent.Hammer),
             shooting_star_count |-> count_recent(recent.Shooting_Star),
             in_consolidation |-> ilocNeg(recent.Consolidation, 1),
             consolidation_days |-> count_recent(recent.Consolidation),
             support_levels |-> levels.value[1],
             resistance_levels |-> levels.value[2],
             stats_52_week |-> calculate_52_week_high_low(frame)])

-----------------------------------------------------------------------------
(* src/src/options/greeks.py *)

\* date(year, month, day).toordinal(): the day number in the proleptic
\* Gregorian calendar
toordinal(year, month, day) ==
    LET y == year - 1
        leap == year % 4 = 0 /\ (year % 100 # 0 \/ year % 400 = 0)
        days_before_month ==
            <<0, 31, 59, 90, 120, 151, 181, 212, 243, 273, 304, 334>>[month]
            + (IF month > 2 /\ leap THEN 1 ELSE 0)
    IN  y * 365 + (y \div 4) - (y \div 100) + (y \div 400) + days_before_month + day

\* datetime.strptime(s, '%Y-%m-%d').date() of the text year-month-day:
\* ValueError unless it names a day of the calendar
strptime(s) ==
    LET leap == s.year % 4 = 0 /\ (s.year % 100 # 0 \/ s.year % 400 = 0)
        days_in_month ==
            IF s.month = 2 THEN (IF leap THEN 29 ELSE 28)
            ELSE IF s.month \in {4, 6, 9, 11} THEN 30 ELSE 31
    IN  IF s.year \in 1..9999 /\ s.month \in 1..12 /\ s.day \in 1..days_in_month
        THEN Return(toordinal(s.year, s.month, s.day))
        ELSE Raise

calculate_time_to_expiration_no_floor(expiration_date, today) ==
    LET exp_date == IF expiration_date.type = "str" THEN strptime(expiration_date)
                    ELSE Return(toordinal(expiration_date.year,
                                          expiration_date.month,
                                          expiration_date.day))
    IN  IF exp_date = Raise THEN Raise
        ELSE Return([n |-> exp_date.value - toordinal(today.year, today.month, today.day),
                     d |-> 365])

\* today is date.today(); dates are held as day numbers
calculate_time_to_expiration(expiration_date, today) ==
    LET exp_date == IF expiration_date.type = "str" THEN strptime(expiration_date)
                    ELSE Return(toordinal(expiration_date.year,
                                          expiration_date.month,
                                          expiration_date.day))
    IN  IF exp_date = Raise THEN Raise
        ELSE LET days_to_expiration ==
                     exp_date.value - toordinal(today.year, today.month, today.day)
                 years == [n |-> days_to_expiration, d |-> 365]
                 floor == [n |-> 1, d |-> 1000]
             IN  \* max(years, 0.001)
                 Return(IF Gt(floor, years) THEN floor ELSE years)

\* for T > 0 the value of a closed formula in log, exp, sqrt and the normal
\* distribution, which is kept as a term: the quantity and its arguments
black_scholes_call(S, K, T, r, sigma) ==
    IF Le(T, Num(0)) THEN (IF Gt(Sub(S, K), Num(0)) THEN Sub(S, K) ELSE Num(0))
    ELSE [term |-> "call_price", of |-> <<S, K, T, r, sigma>>]

black_scholes_put(S, K, T, r, sigma) ==
    IF Le(T, Num(0)) THEN (IF Gt(Sub(K, S), Num(0)) THEN Sub(K, S) ELSE Num(0))
    ELSE [term |-> "put_price", of |-> <<S, K, T, r, sigma>>]

calculate_delta_ge(S, K, T, r, sigma, option_type) ==
    IF Le(T, Num(0))
    THEN IF option_type = "call"
         THEN (IF Ge(S, K) THEN Num(1) ELSE Num(0))
         ELSE (IF Le(S, K) THEN Num(-1) ELSE Num(0))
    ELSE [term |-> "delta", of |-> <<S, K, T, r, sigma, option_type>>]

calculate_delta(S, K, T, r, sigma, option_type) ==
    IF Le(T, Num(0))
    THEN IF option_type = "call"
         THEN (IF Gt(S, K) THEN Num(1) ELSE Num(0))
         ELSE (IF Lt(S, K) THEN Num(-1) ELSE Num(0))
    ELSE [term |-> "delta", of |-> <<S, K, T, r, sigma, option_type>>]

calculate_gamma(S, K, T, r, sigma) ==
    IF Le(T, Num(0)) THEN Num(0)
    ELSE [term |-> "gamma", of |-> <<S, K, T, r, sigma>>]

calculate_theta(S, K, T, r, sigma, option_type) ==
    IF Le(T, Num(0)) THEN Num(0)
    ELSE [term |-> "theta", of |-> <<S, K, T, r, sigma, option_type>>]

calculate_vega(S, K, T, r, sigma) ==
    IF Le(T, Num(0)) THEN Num(0)
    ELSE [term |-> "vega", of |-> <<S, K, T, r, sigma>>]

calculate_rho(S, K, T, r, sigma, option_type) ==
    IF Le(T, Num(0)) THEN Num(0)
    ELSE [term |-> "rho", of |-> <<S, K, T, r, sigma, option_type>>]

calculate_all_greeks(S, K, T, r, sigma, option_type) ==
    [delta |-> calculate_delta(S, K, T, r, sigma, option_type),
     gamma |-> calculate_gamma(S, K, T, r, sigma),
     theta |-> calculate_theta(S, K, T, r, sigma, option_type),
     vega |-> calculate_vega(S, K, T, r, sigma),
     rho |-> calculate_rho(S, K, T, r, sigma, option_type),
     theoretical_price |->
        IF option_type = "call" THEN black_scholes_call(S, K, T, r, sigma)
        ELSE black_scholes_put(S, K, T, r, sigma)]

-----------------------------------------------------------------------------
(* Single calls of the indicator, pattern and option functions *)

CandleFrame(bars) ==
    [Open |-> [i \in 1..Len(bars) |-> bars[i][1]],
     High |-> [i \in 1..Len(bars) |-> bars[i][2]],
     Low |-> [i \in 1..Len(bars) |-> bars[i][3]],
     Close |-> [i \in 1..Len(bars) |-> bars[i][4]]]

\* every frame of up to 3 candles (Open, High, Low, Close) out of: one
\* without range, a doji, a body of exactly 0.1% of the range, a hammer, a
\* shooting star, and two falling and two rising candles that engulf one
\* another
CandleFrames ==
    {CandleFrame(bars) :
        bars \in UNION {[1..n -> {<<100, 100, 100, 100>>, <<100, 110, 90, 100>>,
                                  <<1000, 2000, 1000, 1001>>,
                                  <<109, 110, 100, 110>>, <<101, 110, 100, 100>>,
                                  <<104, 106, 99, 100>>, <<101, 104, 100, 103>>,
                                  <<103, 104, 100, 101>>, <<100, 105, 99, 104>>}] :
                        n \in 0..3}}

\* frames of 5 bars with two local minima of Low and of High, all candles
\* 2 high around the close
LevelFrames ==
    {CandleFrame([i \in 1..5 |-> <<c[i], c[i] + 1, c[i] - 1, c[i]>>]) :
        c \in [1..5 -> {100, 101, 102}]}

CallInputs ==
    [identify_doji |->
        {[df |-> f, threshold |-> t] :
            f \in {g \in CandleFrames : len(g) <= 2},
            t \in {[n |-> 1, d |-> 10], Num(50)}},
     identify_engulfing |-> {[df |-> f] : f \in {g \in CandleFrames : len(g) <= 2}},
     identify_hammer_shooting_star |->
        {[df |-> f, ratio |-> r] :
            f \in {g \in CandleFrames : len(g) <= 2},
            r \in {Num(1), Num(2), [n |-> 1, d |-> 2]}},
     identify_golden_death_cross |-> {[df |-> f] : f \in MAFrames},
     find_support_resistance_levels |->
        {[df |-> f, num_levels |-> k] :
            f \in CandleFrames \cup LevelFrames, k \in {1, 3}},
     summarize_patterns |-> {[df |-> f] : f \in CandleFrames \cup LevelFrames},
     calculate_sma |-> SmaInputs,
     calculate_rsi |-> RsiInputs,
     calculate_obv |-> ObvFrames,
     \* prices around the strike, before, at and after expiry
     calculate_all_greeks |->
        {[S |-> Num(p), K |-> Num(100), T |-> t, r |-> [n |-> 5, d |-> 100],
          sigma |-> [n |-> 2, d |-> 10], option_type |-> o] :
            p \in {90, 100, 110},
            t \in {Num(-1), Num(0), [n |-> 1, d |-> 1000], Num(1)},
            o \in {"call", "put"}},
     \* expiration dates as text (two of them no dates) or as date objects,
     \* around three values of today
     calculate_time_to_expiration |->
        {[expiration_date |-> [type |-> k, year |-> e[1], month |-> e[2], day |-> e[3]],
          today |-> [year |-> t[1], month |-> t[2], day |-> t[3]]] :
            k \in {"str", "date"},
            e \in {<<2024, 2, 29>>, <<2024, 12, 31>>, <<2025, 1, 1>>, <<2025, 1, 2>>,
                   <<2025, 3, 1>>, <<2026, 1, 1>>},
            t \in {<<2024, 2, 28>>, <<2024, 12, 31>>, <<2025, 1, 1>>}}
        \cup {[expiration_date |-> [type |-> "str", year |-> e[1], month |-> e[2],
                                    day |-> e[3]],
               today |-> [year |-> 2025, month |-> 1, day |-> 1]] :
                 e \in {<<2025, 2, 29>>, <<2025, 13, 1>>}}]

InitCalls ==
    /\ ScanIdle
    /\ fn \in DOMAIN CallInputs
    /\ arg \in CallInputs[fn]
    /\ ret = None

CallIdentifyDoji ==
    /\ fn = "identify_doji"
    /\ ret = None
    /\ ret' = Return(identify_doji(arg.df, arg.threshold))
    /\ UNCHANGED <<fn, arg>>
    /\ UNCHANGED scanVars

CallIdentifyEngulfing ==
    /\ fn = "identify_engulfing"
    /\ ret = None
    /\ ret' = Return(identify_engulfing(arg.df))
    /\ UNCHANGED <<fn, arg>>
    /\ UNCHANGED scanVars

\* identify_hammer and identify_shooting_star on the same frame and ratio
CallIdentifyHammerShootingStar ==
    /\ fn = "identify_hammer_shooting_star"
    /\ ret = None
    /\ ret' = Return([hammer |-> identify_hammer(arg.df, arg.ratio),
                      shooting_star |-> identify_shooting_star(arg.df, arg.ratio)])
    /\ UNCHANGED <<fn, arg>>
    /\ UNCHANGED scanVars

CallIdentifyGoldenDeathCross ==
    /\ fn = "identify_golden_death_cross"
    /\ ret = None
    /\ ret' = Return(identify_golden_death_cross(arg.df))
    /\ UNCHANGED <<fn, arg>>
    /\ UNCHANGED scanVars

CallFindSupportResistanceLevels ==
    /\ fn = "find_support_resistance_levels"
    /\ ret = None
    /\ ret' = find_support_resistance_levels(arg.df, arg.num_levels)
    /\ UNCHANGED <<fn, arg>>
    /\ UNCHANGED scanVars

CallSummarizePatterns ==
    /\ fn = "summarize_patterns"
    /\ ret = None
    /\ ret' = summarize_patterns(arg.df)
    /\ UNCHANGED <<fn, arg>>
    /\ UNCHANGED scanVars

CallCalculateAllGreeks ==
    /\ fn = "calculate_all_greeks"
    /\ ret = None
    /\ ret' = Return(calculate_all_greeks(arg.S, arg.K, arg.T, arg.r, arg.sigma,
                                         arg.option_type))
    /\ UNCHANGED <<fn, arg>>
    /\ UNCHANGED scanVars

CallCalculateTimeToExpiration ==
    /\ fn = "calculate_time_to_expiration"
    /\ ret = None
    /\ ret' = calculate_time_to_expiration(arg.expiration_date, arg.today)
    /\ UNCHANGED <<fn, arg>>
    /\ UNCHANGED scanVars

NextCalls ==
    \/ CallIdentifyDoji
    \/ CallIdentifyEngulfing
    \/ CallIdentifyHammerShootingStar
    \/ CallIdentifyGoldenDeathCross
    \/ CallFindSupportResistanceLevels
    \/ CallSummarizePatterns
    \/ CallCalculateSma
    \/ CallCalculateRsi
    \/ CallCalculateObv
    \/ CallCalculateAllGreeks
    \/ CallCalculateTimeToExpiration

SpecCalls == InitCalls /\ [][NextCalls]_vars

\* the values of s at its strict local minima (sign 1) or maxima (sign -1),
\* restated on the raw integers
StrictLocalValues(s, sign) ==
    {s[i] : i \in {j \in 1..Len(s) :
        /\ j > 1
        /\ j < Len(s)
        /\ sign * (s[j - 1] - s[j]) > 0
        /\ sign * (s[j + 1] - s[j]) > 0}}

\* C23: find_support_resistance_levels returns a pair (support_levels,
\* resistance_levels) of price lists, each of at most num_levels values
\* that are strict local minima of Low / strict local maxima of High, and
\* summarize_patterns returns a summary that holds these lists, without
\* raising.
C23_SupportResistanceReturned ==
    /\ Returned("find_support_resistance_levels") =>
          /\ ret.kind = "return"
          /\ Len(ret.value[1]) <= arg.num_levels
          /\ Len(ret.value[2]) <= arg.num_levels
          /\ \A i \in 1..Len(ret.value[1]) :
                ret.value[1][i] \in StrictLocalValues(arg.df.Low, 1)
          /\ \A i \in 1..Len(ret.value[2]) :
                ret.value[2][i] \in StrictLocalValues(arg.df.High, -1)
    /\ Returned("summarize_patterns") =>
          /\ ret.kind = "return"
          /\ \A i \in 1..Len(ret.value.support_levels) :
                ret.value.support_levels[i] \in StrictLocalValues(arg.df.Low, 1)
          /\ \A i \in 1..Len(ret.value.resistance_levels) :
                ret.value.resistance_levels[i] \in StrictLocalValues(arg.df.High, -1)

\* C24: identify_doji is False (not NaN, no error) at a bar with high = low,
\* and elsewhere True iff bodySize / candleRange * 100 < threshold;
\* identify_engulfing is False for both patterns at the first bar.
C24_DojiAndFirstBar ==
    /\ Returned("identify_doji") =>
          /\ ret.kind = "return"
          /\ Len(ret.value) = len(arg.df)
          /\ \A i \in 1..len(arg.df) :
                LET body == IF arg.df.Close[i] >= arg.df.Open[i]
                            THEN arg.df.Close[i] - arg.df.Open[i]
                            ELSE arg.df.Open[i] - arg.df.Close[i]
                    range == arg.df.High[i] - arg.df.Low[i]
                IN  /\ ret.value[i] \in BOOLEAN
                    /\ range = 0 => ret.value[i] = FALSE
                    /\ range > 0 =>
                          (ret.value[i] <=>
                              100 * body * arg.threshold.d < arg.threshold.n * range)
    /\ (Returned("identify_engulfing") /\ len(arg.df) > 0) =>
          /\ ret.kind = "return"
          /\ ret.value.bullish[1] = FALSE
          /\ ret.value.bearish[1] = FALSE

\* a bar without range, then a doji with a range of 20: not a doji, a doji
C24_Witness ==
    /\ Returned("identify_doji")
    /\ arg.threshold = [n |-> 1, d |-> 10]
    /\ arg.df = CandleFrame(<<(<<100, 100, 100, 100>>), (<<100, 110, 90, 100>>)>>)
    /\ ret.kind = "return"
    /\ ret.value = <<FALSE, TRUE>>

\* C30: for a ratio >= 1 no bar is both a hammer and a shooting star, and
\* identify_golden_death_cross sets Golden_Cross and Death_Cross at no
\* common index.
C30_SignalsExclusive ==
    /\ (Returned("identify_hammer_shooting_star") /\ Ge(arg.ratio, Num(1))) =>
          \A i \in 1..len(arg.df) :
              ~(ret.value.hammer[i] /\ ret.value.shooting_star[i])
    /\ Returned("identify_golden_death_cross") =>
          \A i \in 1..len(arg.df) :
              ~(ret.value.Golden_Cross[i] /\ ret.value.Death_Cross[i])

\* a hammer followed by a shooting star, ratio 2
C30_Witness ==
    /\ Returned("identify_hammer_shooting_star")
    /\ arg.ratio = Num(2)
    /\ arg.df = CandleFrame(<<(<<109, 110, 100, 110>>), (<<101, 110, 100, 100>>)>>)
    /\ ret.value.hammer = <<TRUE, FALSE>>
    /\ ret.value.shooting_star = <<FALSE, TRUE>>

\* C25: for T <= 0 calculate_all_greeks returns the intrinsic value as
\* theoretical_price (max(S-K, 0) for a call, max(K-S, 0) for a put), 0 for
\* gamma, theta, vega and rho, and as delta 1 if S > K else 0 for a call,
\* -1 if S < K else 0 for a put, without raising.
C25_GreeksAtExpiry ==
    (Returned("calculate_all_greeks") /\ Le(arg.T, Num(0))) =>
        LET S == arg.S.n
            K == arg.K.n
            call == arg.option_type = "call"
            intrinsic == IF call THEN (IF S > K THEN S - K ELSE 0)
                         ELSE (IF K > S THEN K - S ELSE 0)
            delta == IF call THEN (IF S > K THEN 1 ELSE 0)
                     ELSE (IF S < K THEN -1 ELSE 0)
            g == ret.value
        IN  /\ ret.kind = "return"
            /\ g.theoretical_price.d > 0
            /\ g.theoretical_price.n = intrinsic * g.theoretical_price.d
            /\ g.delta = Num(delta)
            /\ g.gamma = Num(0)
            /\ g.theta = Num(0)
            /\ g.vega = Num(0)
            /\ g.rho = Num(0)

\* a put at the money at expiry: price 0 and delta 0
C25_Witness ==
    /\ Returned("calculate_all_greeks")
    /\ arg.T = Num(0)
    /\ arg.S = arg.K
    /\ arg.option_type = "put"
    /\ ret.value.delta = Num(0)
    /\ ret.value.theoretical_price.n = 0

\* the days from today to the expiration date, counted on the calendar
DaysBetween(from, to) ==
    LET YearLength(y) ==
            IF y % 4 = 0 /\ (y % 100 # 0 \/ y % 400 = 0) THEN 366 ELSE 365
        DayOfYear(date) ==
            date.day + SumInts([m \in 1..12 |->
                IF m = 2 THEN YearLength(date.year) - 337
                ELSE IF m \in {4, 6, 9, 11} THEN 30 ELSE 31], 1, date.month - 1)
        years == IF from.year <= to.year THEN from.year..(to.year - 1)
                 ELSE to.year..(from.year - 1)
        span == SumInts([k \in 1..Cardinality(years) |->
                    YearLength((IF from.year <= to.year THEN from.year ELSE to.year) + k - 1)],
                    1, Cardinality(years))
    IN  (IF from.year <= to.year THEN span ELSE -span) + DayOfYear(to) - DayOfYear(from)

\* C26: calculate_time_to_expiration returns max(daysToExpiry / 365, 0.001),
\* so at least 0.001 years also for a date equal to or before today, and a
\* time derived from a date never takes the T <= 0 branch of the pricing
\* functions.
C26_TimeFloor ==
    (Returned("calculate_time_to_expiration") /\ ret.kind = "return") =>
        LET days == DaysBetween(arg.today, arg.expiration_date)
            T == ret.value
        IN  /\ T.d > 0
            /\ 1000 * T.n >= T.d
            /\ IF 1000 * days > 365 THEN T.n * 365 = days * T.d
               ELSE T.n * 1000 = T.d
            /\ calculate_gamma(Num(100), Num(100), T, Num(0), Num(1)) # Num(0)
            /\ black_scholes_call(Num(110), Num(100), T, Num(0), Num(1)) # Num(10)

\* an expiration date two days before today: 0.001 years
C26_Witness ==
    /\ Returned("calculate_time_to_expiration")
    /\ arg.today = [year |-> 2025, month |-> 1, day |-> 2 - 1]
    /\ arg.expiration_date.type = "str"
    /\ arg.expiration_date.year = 2024
    /\ arg.expiration_date.day = 31
    /\ ret = Return([n |-> 1, d |-> 1000])

====
